---- MODULE Spec2Model ----
(***************************************************************************)
(* Availability reasoning core of mcp-context-engine:                      *)
(*   app/core/timeparse.py     parse_query_to_windows, parse_slot_intent   *)
(*   app/core/availability.py  _parse_iso, _overlap, _merge_overlaps,      *)
(*                             _suggest_slots_in_window, suggest_slots,    *)
(*                             decide_availability                         *)
(*                                                                         *)
(* A datetime is the number of minutes since 00:00 of the current civil    *)
(* day in the configured zone (the zone keeps one UTC offset over the few  *)
(* days modelled).  An ISO-8601 string is a record: its wall-clock reading *)
(* in minutes and its UTC offset, or no offset at all (a naive string).    *)
(* A query string is its sequence of tokens.  BusyBlock objects live in a  *)
(* list; a merged list holds references to them, so a write through the    *)
(* merged list is a write to the object.                                   *)
(***************************************************************************)
EXTENDS Integers, Sequences, FiniteSets, TLC

VARIABLES
    settings,   \* app.core.config.settings: the process-wide Settings object
    cfg,        \* the cfg argument of decide_availability
    now,        \* datetime.now(tz) as parse_query_to_windows reads it
    slot_now,   \* datetime.now(tz) as parse_slot_intent reads it, later in the call
    now_wd,     \* now.weekday(), 0 = Monday
    query,      \* query_text, tokenised
    events,     \* the events argument: a list of _EventDict
    blocks,     \* decide_availability's local list of BusyBlock objects
    blocks_for_slots, \* decide_availability's merged, all-day-expanded list
    result,     \* the AvailabilityResult returned
    call,       \* the arguments of a direct call of _merge_overlaps or _suggest_slots_in_window
    ret,        \* the list such a call returned
    pc,         \* "call" before the function runs, "done" after it returned,
                \* "raised" after it raised
    tasks       \* the frames of decide_availability calls running side by side:
                \* each call's locals and its position

vars == <<settings, cfg, now, slot_now, now_wd, query, events, blocks, blocks_for_slots, result,
          call, ret, pc, tasks>>

-----------------------------------------------------------------------------
(* Bounds *)

\* longest event list handed to decide_availability
MaxEvents == 2

\* longest block list handed to _merge_overlaps directly
MaxBlocks == 3

\* largest max_suggestions handed to _suggest_slots_in_window directly
MaxSuggestions == 2

-----------------------------------------------------------------------------
(* Time *)

\* timedelta(days=1), in minutes
DayMin == 1440

\* UTC offset of DEFAULT_TZ (America/Chicago, standard time), in minutes
ZoneOffset == 0 - 360

Max(a, b) == IF a >= b THEN a ELSE b

Min(a, b) == IF a <= b THEN a ELSE b

\* dt.replace(hour=0, minute=0, second=0, microsecond=0)
Midnight(dt) == dt - (dt % DayMin)

\* dt.replace(hour=h, minute=m, second=0, microsecond=0)
ReplaceTime(dt, h, m) == Midnight(dt) + 60 * h + m

\* an ISO-8601 string: wall-clock minutes and UTC offset ("Z" is offset 0)
IsoNaive(t) == [kind |-> "naive", local |-> t, off |-> 0]

IsoOffset(t, o) == [kind |-> "offset", local |-> t, off |-> o]

IsoBad == [kind |-> "bad", local |-> 0, off |-> 0]

\* _parse_iso succeeds on the string (datetime.fromisoformat does not raise)
IsoParses(s) == s.kind \in {"naive", "offset"}

\* _parse_iso: a naive string is read in the zone, a string with an offset
\* is converted to the zone
ParseIso(s) ==
    IF s.kind = "naive" THEN s.local
    ELSE s.local - s.off + ZoneOffset

\* datetime.isoformat() of a datetime of the zone
IsoFormat(dt) == IsoOffset(dt, ZoneOffset)

\* isoformat()[11:16]: the "HH:MM" of an emitted string, as minute of the day
HHMM(iso) == iso.local % DayMin

-----------------------------------------------------------------------------
(* Query tokens *)

\* a word
W(s) == [k |-> "w", w |-> s, h |-> 0, m |-> 0, h2 |-> 0, m2 |-> 0]

\* a 1-2 digit number with optional ":MM" ("15", "15:00")
N(h, m) == [k |-> "n", w |-> "", h |-> h, m |-> m, h2 |-> 0, m2 |-> 0]

\* two such numbers joined by "-" ("14-15")
R(h, m, h2, m2) == [k |-> "r", w |-> "", h |-> h, m |-> m, h2 |-> h2, m2 |-> m2]

IsWord(q, i, ws) == i \in 1..Len(q) /\ q[i].k = "w" /\ q[i].w \in ws

\* (\d{1,2})(?::(\d{2}))?\b also matches the first number of "14-15"
IsNum(q, i) == i \in 1..Len(q) /\ q[i].k \in {"n", "r"}

IsRange(q, i) == i \in 1..Len(q) /\ q[i].k = "r"

SetMin(S) == CHOOSE x \in S : \A y \in S : x <= y

DayWords == {"today", "tomorrow"}

DayParts == {"morning", "afternoon", "evening"}

DurUnits == {"min", "mins", "minute", "minutes", "m"}

WeekDays == {"mon", "tue", "wed", "thu", "thur", "thurs", "fri", "sat", "sun"}

\* _DAY_MAP
DAY_MAP(wd) ==
    CASE wd = "mon" -> 0
      [] wd = "tue" -> 1
      [] wd = "wed" -> 2
      [] wd \in {"thu", "thur", "thurs"} -> 3
      [] wd = "fri" -> 4
      [] wd = "sat" -> 5
      [] wd = "sun" -> 6

\* the same without "if days_ahead == 0: days_ahead = 7"
days_aheadSameDay(base_wd, target_wd) == (target_wd - base_wd + 7) % 7

\* _next_weekday: the number of days added to base
days_ahead(base_wd, target_wd) ==
    LET d == (target_wd - base_wd + 7) % 7
    IN  IF d = 0 THEN 7 ELSE d

\* weekday of a datetime of the model
Weekday(dt) == (now_wd + ((Midnight(dt) - Midnight(now)) \div DayMin)) % 7

next_weekday(base, target_wd) == base + DayMin * days_ahead(Weekday(base), target_wd)

\* _parse_24h without the two clamps
parse_24hNoClamp(hh, mm) == [hour |-> hh, minute |-> mm]

\* _parse_24h, as (hour, minute)
parse_24h(hh, mm) == [hour |-> Max(0, Min(23, hh)), minute |-> Max(0, Min(59, mm))]

\* _daypart_bounds, as hours
daypart_bounds(label) ==
    CASE label = "morning" -> <<9, 12>>
      [] label = "afternoon" -> <<12, 17>>
      [] label = "evening" -> <<17, 21>>
      [] OTHER -> <<9, 18>>

\* parse_query_to_windows without "if end < start: end = start"
parse_query_to_windowsNoEndClamp(q) ==
    LET m1 == {i \in 1..Len(q) :
                  /\ IsWord(q, i, DayWords)
                  /\ \/ IsNum(q, i + 1)
                     \/ IsWord(q, i + 1, {"at"}) /\ IsNum(q, i + 2)}
        m2 == {i \in 1..Len(q) :
                  /\ IsWord(q, i, {"next"})
                  /\ IsWord(q, i + 1, WeekDays)
                  /\ IsRange(q, i + 2)}
        m3 == {i \in 1..Len(q) :
                  IsWord(q, i, DayWords) /\ IsWord(q, i + 1, DayParts)}
        m4 == {i \in 1..Len(q) : IsWord(q, i, {"at"}) /\ IsNum(q, i + 1)}
    IN  IF m1 # {} THEN
            LET i == SetMin(m1)
                n == IF IsNum(q, i + 1) THEN q[i + 1] ELSE q[i + 2]
                base == IF q[i].w = "today" THEN now ELSE now + DayMin
                t == parse_24h(n.h, n.m)
                start == ReplaceTime(base, t.hour, t.minute)
            IN  << <<start, start>> >>
        ELSE IF m2 # {} THEN
            LET i == SetMin(m2)
                target_day == next_weekday(now, DAY_MAP(q[i + 1].w))
                t1 == parse_24h(q[i + 2].h, q[i + 2].m)
                t2 == parse_24h(q[i + 2].h2, q[i + 2].m2)
                start == ReplaceTime(target_day, t1.hour, t1.minute)
                end == ReplaceTime(target_day, t2.hour, t2.minute)
            IN  << <<start, end>> >>
        ELSE IF m3 # {} THEN
            LET i == SetMin(m3)
                base == IF q[i].w = "today" THEN now ELSE now + DayMin
                b == daypart_bounds(q[i + 1].w)
            IN  << <<ReplaceTime(base, b[1], 0), ReplaceTime(base, b[2], 0)>> >>
        ELSE IF m4 # {} THEN
            LET i == SetMin(m4)
                t == parse_24h(q[i + 1].h, q[i + 1].m)
                start == ReplaceTime(now, t.hour, t.minute)
            IN  << <<start, start>> >>
        ELSE << >>

\* parse_query_to_windows: the list of (start, end) windows, first match wins
parse_query_to_windows(q) ==
    LET m1 == {i \in 1..Len(q) :
                  /\ IsWord(q, i, DayWords)
                  /\ \/ IsNum(q, i + 1)
                     \/ IsWord(q, i + 1, {"at"}) /\ IsNum(q, i + 2)}
        m2 == {i \in 1..Len(q) :
                  /\ IsWord(q, i, {"next"})
                  /\ IsWord(q, i + 1, WeekDays)
                  /\ IsRange(q, i + 2)}
        m3 == {i \in 1..Len(q) :
                  IsWord(q, i, DayWords) /\ IsWord(q, i + 1, DayParts)}
        m4 == {i \in 1..Len(q) : IsWord(q, i, {"at"}) /\ IsNum(q, i + 1)}
    IN  IF m1 # {} THEN
            LET i == SetMin(m1)
                n == IF IsNum(q, i + 1) THEN q[i + 1] ELSE q[i + 2]
                base == IF q[i].w = "today" THEN now ELSE now + DayMin
                t == parse_24h(n.h, n.m)
                start == ReplaceTime(base, t.hour, t.minute)
            IN  << <<start, start>> >>
        ELSE IF m2 # {} THEN
            LET i == SetMin(m2)
                target_day == next_weekday(now, DAY_MAP(q[i + 1].w))
                t1 == parse_24h(q[i + 2].h, q[i + 2].m)
                t2 == parse_24h(q[i + 2].h2, q[i + 2].m2)
                start == ReplaceTime(target_day, t1.hour, t1.minute)
                end == ReplaceTime(target_day, t2.hour, t2.minute)
            IN  << <<start, IF end < start THEN start ELSE end>> >>
        ELSE IF m3 # {} THEN
            LET i == SetMin(m3)
                base == IF q[i].w = "today" THEN now ELSE now + DayMin
                b == daypart_bounds(q[i + 1].w)
            IN  << <<ReplaceTime(base, b[1], 0), ReplaceTime(base, b[2], 0)>> >>
        ELSE IF m4 # {} THEN
            LET i == SetMin(m4)
                t == parse_24h(q[i + 1].h, q[i + 1].m)
                start == ReplaceTime(now, t.hour, t.minute)
            IN  << <<start, start>> >>
        ELSE << >>

\* the value None of parse_slot_intent
NoIntent == [mode |-> "none", after |-> 0, start |-> 0, end |-> 0, duration_min |-> 0]

AfterTime(after, dur) ==
    [mode |-> "after_time", after |-> after, start |-> 0, end |-> 0, duration_min |-> dur]

DayWindow(start, end, dur) ==
    [mode |-> "day_window", after |-> 0, start |-> start, end |-> end, duration_min |-> dur]

\* the optional "for N min" group at position i: its duration, else 30
ForDuration(q, i) ==
    IF IsWord(q, i, {"for"}) /\ i + 1 \in 1..Len(q) /\ q[i + 1].k = "n"
       /\ IsWord(q, i + 2, DurUnits)
    THEN q[i + 1].h ELSE 30

\* parse_slot_intent: the intent, or NoIntent
parse_slot_intent(q) ==
    LET dur_m == {i \in 1..Len(q) :
                     /\ IsWord(q, i, {"book", "find", "schedule"})
                     /\ i + 1 \in 1..Len(q) /\ q[i + 1].k = "n"
                     /\ IsWord(q, i + 2, DurUnits)}
        after_m == {i \in 1..Len(q) : IsWord(q, i, {"after"})}
        a == IF after_m # {} THEN SetMin(after_m) ELSE 0
        mA == after_m # {} /\ IsNum(q, a + 1)
        mB == after_m # {} /\ IsWord(q, a + 1, DayWords) /\ IsNum(q, a + 2)
        ws == {i \in 1..Len(q) :
                  /\ IsWord(q, i, {"any"}) /\ IsWord(q, i + 1, {"slot"})
                  /\ IsWord(q, i + 2, {"this", "next"})
                  /\ IsWord(q, i + 3, WeekDays)}
        ds == {i \in 1..Len(q) :
                  /\ IsWord(q, i, {"any"}) /\ IsWord(q, i + 1, {"slot"})
                  /\ IsWord(q, i + 2, DayWords)}
    IN  IF dur_m # {} /\ (mA \/ mB) THEN
            LET dur == q[SetMin(dur_m) + 1].h
                n == IF mA THEN q[a + 1] ELSE q[a + 2]
                day_word == IF mA
                            THEN (IF IsWord(q, a + 2, DayWords) THEN q[a + 2].w ELSE "")
                            ELSE q[a + 1].w
                base == IF day_word \in {"", "today"} THEN slot_now ELSE slot_now + DayMin
                t == parse_24h(n.h, n.m)
            IN  AfterTime(ReplaceTime(base, t.hour, t.minute), dur)
        ELSE IF ws # {} THEN
            LET i == SetMin(ws)
                target == IF q[i + 2].w = "this" THEN slot_now ELSE slot_now + 7 * DayMin
                base == next_weekday(target, DAY_MAP(q[i + 3].w))
                \* the alternation stops at its first spelling that matches,
                \* "thu" of "thur" and "thurs", and the optional groups then
                \* meet the rest of the word instead of whitespace
                whole == q[i + 3].w \notin {"thur", "thurs"}
                has_part == whole /\ IsWord(q, i + 4, DayParts)
                duration == IF whole
                            THEN ForDuration(q, IF has_part THEN i + 5 ELSE i + 4)
                            ELSE 30
                b == IF has_part THEN daypart_bounds(q[i + 4].w) ELSE <<0, 0>>
            IN  IF has_part
                THEN DayWindow(ReplaceTime(base, b[1], 0), ReplaceTime(base, b[2], 0), duration)
                ELSE DayWindow(ReplaceTime(base, 0, 0), ReplaceTime(base, 23, 59), duration)
        ELSE IF ds # {} THEN
            LET i == SetMin(ds)
                base == IF q[i + 2].w = "today" THEN slot_now ELSE slot_now + DayMin
                has_part == IsWord(q, i + 3, DayParts)
                duration == ForDuration(q, IF has_part THEN i + 4 ELSE i + 3)
                b == IF has_part THEN daypart_bounds(q[i + 3].w) ELSE <<9, 18>>
            IN  DayWindow(ReplaceTime(base, b[1], 0), ReplaceTime(base, b[2], 0), duration)
        ELSE NoIntent

\* the keys of _DAY_MAP
DayMapKeys == {"mon", "tue", "wed", "thu", "thur", "thurs", "fri", "sat", "sun"}

\* time(hh, mm, 0) raises ValueError
TimeRaises(hour, minute) == hour \notin 0..23 \/ minute \notin 0..59

\* _parse_24h raises: its time(hh, mm, 0) does, on the clamped values
parse_24h_raises(hh, mm) ==
    LET t == parse_24h(hh, mm) IN TimeRaises(t.hour, t.minute)

\* parse_query_to_windows raises: in the branch of the first pattern that
\* matches, _parse_24h does or _DAY_MAP[wd] is a KeyError
parse_query_to_windows_raises(q) ==
    LET m1 == {i \in 1..Len(q) :
                  /\ IsWord(q, i, DayWords)
                  /\ \/ IsNum(q, i + 1)
                     \/ IsWord(q, i + 1, {"at"}) /\ IsNum(q, i + 2)}
        m2 == {i \in 1..Len(q) :
                  /\ IsWord(q, i, {"next"})
                  /\ IsWord(q, i + 1, WeekDays)
                  /\ IsRange(q, i + 2)}
        m3 == {i \in 1..Len(q) :
                  IsWord(q, i, DayWords) /\ IsWord(q, i + 1, DayParts)}
        m4 == {i \in 1..Len(q) : IsWord(q, i, {"at"}) /\ IsNum(q, i + 1)}
    IN  IF m1 # {} THEN
            LET i == SetMin(m1)
                n == IF IsNum(q, i + 1) THEN q[i + 1] ELSE q[i + 2]
            IN  parse_24h_raises(n.h, n.m)
        ELSE IF m2 # {} THEN
            LET i == SetMin(m2)
            IN  \/ q[i + 1].w \notin DayMapKeys
                \/ parse_24h_raises(q[i + 2].h, q[i + 2].m)
                \/ parse_24h_raises(q[i + 2].h2, q[i + 2].m2)
        ELSE IF m3 # {} THEN FALSE
        ELSE IF m4 # {} THEN
            LET i == SetMin(m4) IN parse_24h_raises(q[i + 1].h, q[i + 1].m)
        ELSE FALSE

\* parse_slot_intent raises: likewise
parse_slot_intent_raises(q) ==
    LET dur_m == {i \in 1..Len(q) :
                     /\ IsWord(q, i, {"book", "find", "schedule"})
                     /\ i + 1 \in 1..Len(q) /\ q[i + 1].k = "n"
                     /\ IsWord(q, i + 2, DurUnits)}
        after_m == {i \in 1..Len(q) : IsWord(q, i, {"after"})}
        a == IF after_m # {} THEN SetMin(after_m) ELSE 0
        mA == after_m # {} /\ IsNum(q, a + 1)
        mB == after_m # {} /\ IsWord(q, a + 1, DayWords) /\ IsNum(q, a + 2)
        ws == {i \in 1..Len(q) :
                  /\ IsWord(q, i, {"any"}) /\ IsWord(q, i + 1, {"slot"})
                  /\ IsWord(q, i + 2, {"this", "next"})
                  /\ IsWord(q, i + 3, WeekDays)}
    IN  IF dur_m # {} /\ (mA \/ mB) THEN
            LET n == IF mA THEN q[a + 1] ELSE q[a + 2]
            IN  parse_24h_raises(n.h, n.m)
        ELSE IF ws # {} THEN q[SetMin(ws) + 3].w \notin DayMapKeys
        ELSE FALSE

-----------------------------------------------------------------------------
(* Busy blocks *)

\* BusyBlock(title, start, end, all_day)
BusyBlock(title, start, end, all_day) ==
    [title |-> title, start |-> start, end |-> end, all_day |-> all_day]

\* an entry of a derived list: the BusyBlock object blocks[ref], or an
\* object of its own when ref = 0
Obj(ref, b) ==
    [ref |-> ref, title |-> b.title, start |-> b.start, end |-> b.end, all_day |-> b.all_day]

\* the try/except of the normalisation loop: the event yields a block
EventParses(ev) == IsoParses(ev.start) /\ IsoParses(ev.end)

\* the loop with "break" for "continue": it ends at the first event that
\* does not parse
RECURSIVE NormalizeStopAtBad(_)
NormalizeStopAtBad(evs) ==
    IF evs = << >> THEN << >>
    ELSE LET ev == Head(evs)
         IN  IF EventParses(ev)
             THEN << BusyBlock(ev.title, ParseIso(ev.start), ParseIso(ev.end), ev.all_day) >>
                  \o NormalizeStopAtBad(Tail(evs))
             ELSE << >>

\* the normalisation loop of decide_availability and suggest_slots
RECURSIVE Normalize(_)
Normalize(evs) ==
    IF evs = << >> THEN << >>
    ELSE LET ev == Head(evs)
         IN  (IF EventParses(ev)
              THEN << BusyBlock(ev.title, ParseIso(ev.start), ParseIso(ev.end), ev.all_day) >>
              ELSE << >>) \o Normalize(Tail(evs))

\* _overlap: the edge policy is read from the process-wide settings object
Overlap(a_start, a_end, b_start, b_end) ==
    IF settings.AVAILABILITY_EDGE_POLICY = "inclusive"
    THEN a_start <= b_end /\ b_start <= a_end
    ELSE a_start < b_end /\ b_start < a_end

\* _expand_all_day (and the same loop of suggest_slots): an all-day block is
\* replaced by a new object, any other block is passed on as the same object
ExpandAllDay(bs) ==
    [i \in 1..Len(bs) |->
        IF bs[i].all_day
        THEN LET d0 == Midnight(bs[i].start)
             IN  Obj(0, BusyBlock(bs[i].title, d0, d0 + DayMin, TRUE))
        ELSE Obj(i, bs[i])]

KeyLeq(a, b) == a.start < b.start \/ (a.start = b.start /\ a.end <= b.end)

\* sorted(..., key=lambda b: (b.start, b.end)): stable
RECURSIVE SortByStartEnd(_)
SortByStartEnd(s) ==
    IF Len(s) <= 1 THEN s
    ELSE LET x == s[Len(s)]
             front == SortByStartEnd(SubSeq(s, 1, Len(s) - 1))
             k == Cardinality({i \in 1..Len(front) : KeyLeq(front[i], x)})
         IN  SubSeq(front, 1, k) \o <<x>> \o SubSeq(front, k + 1, Len(front))

\* the loop without "or last.end == b.start": a block that only touches the
\* previous one is kept apart
RECURSIVE MergeLoopNoTouch(_, _, _)
MergeLoopNoTouch(bs, i, merged) ==
    IF i > Len(bs) THEN merged
    ELSE LET last == merged[Len(merged)]
             b == bs[i]
         IN  IF Overlap(last.start, last.end, b.start, b.end)
             THEN MergeLoopNoTouch(bs, i + 1,
                                   IF b.end > last.end
                                   THEN [merged EXCEPT ![Len(merged)].end = b.end]
                                   ELSE merged)
             ELSE MergeLoopNoTouch(bs, i + 1, Append(merged, b))

RECURSIVE MergeLoop(_, _, _)
MergeLoop(bs, i, merged) ==
    IF i > Len(bs) THEN merged
    ELSE LET last == merged[Len(merged)]
             b == bs[i]
         IN  IF Overlap(last.start, last.end, b.start, b.end) \/ last.end = b.start
             THEN MergeLoop(bs, i + 1,
                            IF b.end > last.end
                            THEN [merged EXCEPT ![Len(merged)].end = b.end]
                            ELSE merged)
             ELSE MergeLoop(bs, i + 1, Append(merged, b))

\* _merge_overlaps: the list returned
merge_overlaps(bs) ==
    IF bs = << >> THEN << >>
    ELSE LET sorted == SortByStartEnd(bs)
         IN  MergeLoop(sorted, 2, <<sorted[1]>>)

\* the BusyBlock objects after _merge_overlaps returned `merged`: "last.end =
\* b.end" is a write to the object the merged list refers to
HeapAfterMerge(bs, merged) ==
    [i \in 1..Len(bs) |->
        IF \E j \in 1..Len(merged) : merged[j].ref = i
        THEN LET j == CHOOSE j \in 1..Len(merged) : merged[j].ref = i
             IN  [bs[i] EXCEPT !.end = merged[j].end]
        ELSE bs[i]]

-----------------------------------------------------------------------------
(* Slot finder *)

Slot(cursor, duration_min) ==
    [start |-> IsoFormat(cursor), end |-> IsoFormat(cursor + duration_min),
     reason |-> "earliest free segment"]

\* the for loop of _suggest_slots_in_window; returned = the loop left the
\* function by "return suggestions"
RECURSIVE SlotLoop(_, _, _, _, _, _, _, _)
SlotLoop(bs, i, cursor, suggestions, win_start, win_end, duration_min, max_suggestions) ==
    IF i > Len(bs)
    THEN [suggestions |-> suggestions, cursor |-> cursor, returned |-> FALSE]
    ELSE LET b == bs[i]
         IN  IF b.end <= win_start \/ b.start >= win_end
             THEN SlotLoop(bs, i + 1, cursor, suggestions, win_start, win_end,
                           duration_min, max_suggestions)
             ELSE LET emit == cursor < b.start
                              /\ Min(b.start, win_end) - cursor >= duration_min
                      sug1 == IF emit THEN Append(suggestions, Slot(cursor, duration_min))
                              ELSE suggestions
                      cursor1 == Max(cursor, b.end)
                  IN  IF emit /\ Len(sug1) >= max_suggestions
                      THEN [suggestions |-> sug1, cursor |-> cursor, returned |-> TRUE]
                      ELSE IF cursor1 >= win_end
                      THEN [suggestions |-> sug1, cursor |-> cursor1, returned |-> FALSE]
                      ELSE SlotLoop(bs, i + 1, cursor1, sug1, win_start, win_end,
                                    duration_min, max_suggestions)

\* the same without the tail segment after the last busy block
suggest_slots_in_windowNoTail(bs, win_start, win_end, duration_min, max_suggestions) ==
    LET r == SlotLoop(bs, 1, win_start, << >>, win_start, win_end,
                      duration_min, max_suggestions)
    IN  r.suggestions

\* the same with the tail emitted whenever cursor < win_end, whether or not
\* the duration fits before win_end
suggest_slots_in_windowTailUnfitted(bs, win_start, win_end, duration_min, max_suggestions) ==
    LET r == SlotLoop(bs, 1, win_start, << >>, win_start, win_end,
                      duration_min, max_suggestions)
    IN  IF r.returned THEN r.suggestions
        ELSE IF r.cursor < win_end
        THEN Append(r.suggestions, Slot(r.cursor, duration_min))
        ELSE r.suggestions

\* _suggest_slots_in_window
suggest_slots_in_window(bs, win_start, win_end, duration_min, max_suggestions) ==
    LET r == SlotLoop(bs, 1, win_start, << >>, win_start, win_end,
                      duration_min, max_suggestions)
    IN  IF r.returned THEN r.suggestions
        ELSE IF r.cursor < win_end /\ win_end - r.cursor >= duration_min
        THEN Append(r.suggestions, Slot(r.cursor, duration_min))
        ELSE r.suggestions

\* _work_window_for: (start, end) of the working day of `day`
work_window_for(day, c) ==
    << ReplaceTime(day, c.WORK_HOURS_START[1], c.WORK_HOURS_START[2]),
       ReplaceTime(day, c.WORK_HOURS_END[1], c.WORK_HOURS_END[2]) >>

\* _work_window_for raises ValueError on one "HH:MM" setting: the string does
\* not split into two integers, or day.replace() rejects the hour or minute
WorkHoursRaise(v) == Len(v) # 2 \/ v[1] \notin 0..23 \/ v[2] \notin 0..59

work_window_raises(c) == WorkHoursRaise(c.WORK_HOURS_START) \/ WorkHoursRaise(c.WORK_HOURS_END)

\* suggest_slots raises: nothing between the intent and _work_window_for
\* can, and nothing catches what _work_window_for raises
suggest_slots_raises(q, c) == parse_slot_intent(q).mode # "none" /\ work_window_raises(c)

\* suggest_slots with win_start = after in the after-time mode, not
\* max(after, day_start)
suggest_slotsNoWorkStart(q, evs, c, max_suggestions) ==
    LET intent == parse_slot_intent(q)
        bs == merge_overlaps(ExpandAllDay(Normalize(evs)))
    IN  IF intent.mode = "none" THEN << >>
        ELSE IF intent.mode = "after_time" THEN
            LET ww == work_window_for(intent.after, c)
            IN  suggest_slots_in_window(bs, intent.after, ww[2],
                                        intent.duration_min, max_suggestions)
        ELSE
            LET ww == work_window_for(intent.start, c)
                win_start == Max(intent.start, ww[1])
                win_end == Min(intent.end, ww[2])
            IN  IF win_end <= win_start THEN << >>
                ELSE suggest_slots_in_window(bs, win_start, win_end,
                                             intent.duration_min, max_suggestions)

\* suggest_slots with win_end = end in the day-window mode, not min(end, we)
suggest_slotsNoWorkEnd(q, evs, c, max_suggestions) ==
    LET intent == parse_slot_intent(q)
        bs == merge_overlaps(ExpandAllDay(Normalize(evs)))
    IN  IF intent.mode = "none" THEN << >>
        ELSE IF intent.mode = "after_time" THEN
            LET ww == work_window_for(intent.after, c)
            IN  suggest_slots_in_window(bs, Max(intent.after, ww[1]), ww[2],
                                        intent.duration_min, max_suggestions)
        ELSE
            LET ww == work_window_for(intent.start, c)
                win_start == Max(intent.start, ww[1])
                win_end == intent.end
            IN  IF win_end <= win_start THEN << >>
                ELSE suggest_slots_in_window(bs, win_start, win_end,
                                             intent.duration_min, max_suggestions)

\* suggest_slots
suggest_slots(q, evs, c, max_suggestions) ==
    LET intent == parse_slot_intent(q)
        bs == merge_overlaps(ExpandAllDay(Normalize(evs)))
    IN  IF intent.mode = "none" THEN << >>
        ELSE IF intent.mode = "after_time" THEN
            LET ww == work_window_for(intent.after, c)
            IN  suggest_slots_in_window(bs, Max(intent.after, ww[1]), ww[2],
                                        intent.duration_min, max_suggestions)
        ELSE
            LET ww == work_window_for(intent.start, c)
                win_start == Max(intent.start, ww[1])
                win_end == Min(intent.end, ww[2])
            IN  IF win_end <= win_start THEN << >>
                ELSE suggest_slots_in_window(bs, win_start, win_end,
                                             intent.duration_min, max_suggestions)

-----------------------------------------------------------------------------
(* decide_availability *)

AvailabilityResult(availability, conflicts, explanation, suggested_slots) ==
    [availability |-> availability, conflicts |-> conflicts,
     explanation |-> explanation, suggested_slots |-> suggested_slots]

\* an explanation string: its fixed text and the values formatted into it
Explanation(text, title, from, to) ==
    [text |-> text, title |-> title, from |-> from, to |-> to]

\* the test with "b.start < w_start" in the point branch of a timed block
IsConflictingStrictStart(b, w_start, w_end, point_mode) ==
    IF b.all_day
    THEN LET day_start == Midnight(b.start)
             day_end == day_start + DayMin
         IN  IF point_mode
             THEN day_start <= w_start /\ w_start < day_end
             ELSE Overlap(w_start, w_end, day_start, day_end)
    ELSE IF point_mode
         THEN b.start < w_start /\ w_start < b.end
         ELSE Overlap(w_start, w_end, b.start, b.end)

\* the test with an all-day block compared by its own start and end
IsConflictingNoCivilDay(b, w_start, w_end, point_mode) ==
    IF point_mode
    THEN b.start <= w_start /\ w_start < b.end
    ELSE Overlap(w_start, w_end, b.start, b.end)

\* the test of the conflict-detection loop on one block
IsConflicting(b, w_start, w_end, point_mode) ==
    IF b.all_day
    THEN LET day_start == Midnight(b.start)
             day_end == day_start + DayMin
         IN  IF point_mode
             THEN day_start <= w_start /\ w_start < day_end
             ELSE Overlap(w_start, w_end, day_start, day_end)
    ELSE IF point_mode
         THEN b.start <= w_start /\ w_start < b.end
         ELSE Overlap(w_start, w_end, b.start, b.end)

\* the list `conflicting`: the conflicting blocks, in list order
RECURSIVE Conflicting(_, _, _, _)
Conflicting(bs, w_start, w_end, point_mode) ==
    IF bs = << >> THEN << >>
    ELSE (IF IsConflicting(Head(bs), w_start, w_end, point_mode)
          THEN <<Head(bs)>> ELSE << >>)
         \o Conflicting(Tail(bs), w_start, w_end, point_mode)

\* one entry of conflicts_out
ConflictOut(c) ==
    [title |-> c.title, start |-> IsoFormat(c.start), end |-> IsoFormat(c.end),
     all_day |-> c.all_day, source |-> "calendar"]

\* the same with the suggestions of a busy range always 30 minutes long,
\* whatever duration the query asks for
DecideWindowDefaultDuration(q, bs, merged, w_start, w_end) ==
    LET point_mode == (w_start = w_end)
        conflicting == Conflicting(bs, w_start, w_end, point_mode)
        sorted == SortByStartEnd(conflicting)
        conflicts_out == [i \in 1..Len(sorted) |-> ConflictOut(sorted[i])]
        slot_intent == parse_slot_intent(q)
    IN  IF conflicting # << >> THEN
            IF point_mode THEN
                AvailabilityResult("busy", conflicts_out,
                    Explanation("Conflicts with {title} at {HH:MM}.",
                                conflicts_out[1].title, HHMM(conflicts_out[1].start), 0),
                    << >>)
            ELSE
                LET requested_dur == 30
                IN  AvailabilityResult("busy", conflicts_out,
                        Explanation("Conflicts with {title} {HH:MM}-{HH:MM}.",
                                    conflicts_out[1].title,
                                    HHMM(conflicts_out[1].start), HHMM(conflicts_out[1].end)),
                        suggest_slots_in_window(merged, w_start, w_end, requested_dur, 2))
        ELSE
            LET suggestions_if_free ==
                    IF slot_intent.mode = "day_window"
                    THEN suggest_slots_in_window(merged, w_start, w_end,
                                                 slot_intent.duration_min, 2)
                    ELSE << >>
            IN  IF suggestions_if_free # << >>
                THEN AvailabilityResult("free", << >>,
                         Explanation("Window is free; suggested earliest slots.", "", 0, 0),
                         suggestions_if_free)
                ELSE AvailabilityResult("free", << >>,
                         Explanation("No conflicts in the requested window.", "", 0, 0),
                         << >>)

\* the same with only the first conflict returned for a point window
DecideWindowSingleConflict(q, bs, merged, w_start, w_end) ==
    LET point_mode == (w_start = w_end)
        conflicting == Conflicting(bs, w_start, w_end, point_mode)
        sorted == SortByStartEnd(conflicting)
        conflicts_out == [i \in 1..Len(sorted) |-> ConflictOut(sorted[i])]
        slot_intent == parse_slot_intent(q)
    IN  IF conflicting # << >> THEN
            IF point_mode THEN
                AvailabilityResult("busy", <<conflicts_out[1]>>,
                    Explanation("Conflicts with {title} at {HH:MM}.",
                                conflicts_out[1].title, HHMM(conflicts_out[1].start), 0),
                    << >>)
            ELSE
                LET requested_dur == IF slot_intent.mode = "day_window"
                                     THEN slot_intent.duration_min ELSE 30
                IN  AvailabilityResult("busy", conflicts_out,
                        Explanation("Conflicts with {title} {HH:MM}-{HH:MM}.",
                                    conflicts_out[1].title,
                                    HHMM(conflicts_out[1].start), HHMM(conflicts_out[1].end)),
                        suggest_slots_in_window(merged, w_start, w_end, requested_dur, 2))
        ELSE
            LET suggestions_if_free ==
                    IF slot_intent.mode = "day_window"
                    THEN suggest_slots_in_window(merged, w_start, w_end,
                                                 slot_intent.duration_min, 2)
                    ELSE << >>
            IN  IF suggestions_if_free # << >>
                THEN AvailabilityResult("free", << >>,
                         Explanation("Window is free; suggested earliest slots.", "", 0, 0),
                         suggestions_if_free)
                ELSE AvailabilityResult("free", << >>,
                         Explanation("No conflicts in the requested window.", "", 0, 0),
                         << >>)

\* decide_availability from "We have a window" on; bs are the BusyBlock
\* objects as they are at that point, merged is blocks_for_slots
DecideWindow(q, bs, merged, w_start, w_end) ==
    LET point_mode == (w_start = w_end)
        conflicting == Conflicting(bs, w_start, w_end, point_mode)
        sorted == SortByStartEnd(conflicting)
        conflicts_out == [i \in 1..Len(sorted) |-> ConflictOut(sorted[i])]
        slot_intent == parse_slot_intent(q)
    IN  IF conflicting # << >> THEN
            IF point_mode THEN
                AvailabilityResult("busy", conflicts_out,
                    Explanation("Conflicts with {title} at {HH:MM}.",
                                conflicts_out[1].title, HHMM(conflicts_out[1].start), 0),
                    << >>)
            ELSE
                LET requested_dur == IF slot_intent.mode = "day_window"
                                     THEN slot_intent.duration_min ELSE 30
                IN  AvailabilityResult("busy", conflicts_out,
                        Explanation("Conflicts with {title} {HH:MM}-{HH:MM}.",
                                    conflicts_out[1].title,
                                    HHMM(conflicts_out[1].start), HHMM(conflicts_out[1].end)),
                        suggest_slots_in_window(merged, w_start, w_end, requested_dur, 2))
        ELSE
            LET suggestions_if_free ==
                    IF slot_intent.mode = "day_window"
                    THEN suggest_slots_in_window(merged, w_start, w_end,
                                                 slot_intent.duration_min, 2)
                    ELSE << >>
            IN  IF suggestions_if_free # << >>
                THEN AvailabilityResult("free", << >>,
                         Explanation("Window is free; suggested earliest slots.", "", 0, 0),
                         suggestions_if_free)
                ELSE AvailabilityResult("free", << >>,
                         Explanation("No conflicts in the requested window.", "", 0, 0),
                         << >>)

\* decide_availability with availability None, not "unknown", when neither a
\* window nor a suggestion comes out of the query
decide_availabilityNoneWhenUnresolved(q, evs, c) ==
    LET windows == parse_query_to_windows(q)
        bs0 == Normalize(evs)
        merged == merge_overlaps(ExpandAllDay(bs0))
        bs == HeapAfterMerge(bs0, merged)
    IN  IF windows = << >> THEN
            LET suggestions == suggest_slots(q, evs, c, 2)
            IN  IF suggestions # << >>
                THEN AvailabilityResult("unknown", << >>,
                         Explanation("Suggested slots available.", "", 0, 0), suggestions)
                ELSE AvailabilityResult("None", << >>,
                         Explanation("Could not resolve a specific time window.", "", 0, 0),
                         << >>)
        ELSE DecideWindow(q, bs, merged, windows[1][1], windows[1][2])

\* decide_availability with the slot intent tried before the window: a query
\* that yields suggestions is answered "unknown" whether or not it holds a
\* window
decide_availabilitySlotIntentFirst(q, evs, c) ==
    LET windows == parse_query_to_windows(q)
        bs0 == Normalize(evs)
        merged == merge_overlaps(ExpandAllDay(bs0))
        bs == HeapAfterMerge(bs0, merged)
        suggestions == suggest_slots(q, evs, c, 2)
    IN  IF suggestions # << >>
        THEN AvailabilityResult("unknown", << >>,
                 Explanation("Suggested slots available.", "", 0, 0), suggestions)
        ELSE IF windows = << >>
        THEN AvailabilityResult("unknown", << >>,
                 Explanation("Could not resolve a specific time window.", "", 0, 0),
                 << >>)
        ELSE DecideWindow(q, bs, merged, windows[1][1], windows[1][2])

\* decide_availability: the result returned
decide_availability(q, evs, c) ==
    LET windows == parse_query_to_windows(q)
        bs0 == Normalize(evs)
        merged == merge_overlaps(ExpandAllDay(bs0))
        bs == HeapAfterMerge(bs0, merged)
    IN  IF windows = << >> THEN
            LET suggestions == suggest_slots(q, evs, c, 2)
            IN  IF suggestions # << >>
                THEN AvailabilityResult("unknown", << >>,
                         Explanation("Suggested slots available.", "", 0, 0), suggestions)
                ELSE AvailabilityResult("unknown", << >>,
                         Explanation("Could not resolve a specific time window.", "", 0, 0),
                         << >>)
        ELSE DecideWindow(q, bs, merged, windows[1][1], windows[1][2])

\* decide_availability raises: the call of suggest_slots is not guarded
decide_availability_raises(q, c) ==
    parse_query_to_windows(q) = << >> /\ suggest_slots_raises(q, c)

-----------------------------------------------------------------------------
(* Inputs *)

EdgePolicies == {"exclusive_end", "inclusive"}

\* the Settings record: work hours "HH:MM" as split at ":" and read as integers
Settings(policy) ==
    [WORK_HOURS_START |-> <<9, 0>>, WORK_HOURS_END |-> <<18, 0>>,
     AVAILABILITY_EDGE_POLICY |-> policy]

Tomorrow(h) == DayMin + 60 * h

\* start and end strings of the events: naive, with the zone's offset, in UTC
EventStamps ==
    { IsoNaive(Tomorrow(10)),
      IsoOffset(Tomorrow(11), ZoneOffset),
      IsoOffset(Tomorrow(12) - ZoneOffset, 0),
      IsoNaive(Tomorrow(24)) }

Titles == <<"e1", "e2", "e3", "e4", "e5">>

\* an event satisfies start <= end
WellFormed(ev) == ParseIso(ev.start) <= ParseIso(ev.end)

\* the events of the model, titles apart
RawEvents ==
    { [title |-> "", start |-> s, end |-> e, all_day |-> a] :
        s \in EventStamps, e \in EventStamps, a \in BOOLEAN }

\* those of them with start <= end
WellFormedRawEvents == { ev \in RawEvents : WellFormed(ev) }

\* the event list drawn as f, each event titled by its position
Titled(f) == [i \in DOMAIN f |-> [f[i] EXCEPT !.title = Titles[i]]]

Queries ==
    { <<W("am"), W("i"), W("free"), W("tomorrow"), W("at"), N(11, 0)>>,
      <<W("next"), W("fri"), R(11, 0, 12, 0)>>,
      <<W("next"), W("sat"), R(0, 0, 11, 0)>>,
      <<W("tomorrow"), W("morning")>>,
      <<W("any"), W("slot"), W("tomorrow"), W("morning"), W("for"), N(60, 0), W("min")>>,
      <<W("book"), N(30, 0), W("min"), W("after"), N(10, 0), W("tomorrow")>>,
      <<W("any"), W("slot"), W("this"), W("fri"), W("morning")>>,
      <<W("hello")>> }

NoResult == AvailabilityResult("", << >>, Explanation("", "", 0, 0), << >>)

NoCall == [fn |-> "", blocks |-> << >>, win_start |-> 0, win_end |-> 0,
           duration_min |-> 0, max_suggestions |-> 0]

-----------------------------------------------------------------------------
(* One call of decide_availability(query, events, cfg) *)

Init ==
    /\ settings \in {Settings(p) : p \in EdgePolicies}
    /\ cfg \in {Settings(p) : p \in EdgePolicies}
    /\ now = 8 * 60 + 15
    /\ slot_now = now
    /\ tasks = << >>
    /\ now_wd = 3
    /\ query \in Queries
    /\ \E n \in 0..MaxEvents : \E f \in [1..n -> RawEvents] : events = Titled(f)
    /\ blocks = << >>
    /\ blocks_for_slots = << >>
    /\ result = NoResult
    /\ call = NoCall
    /\ ret = << >>
    /\ pc = "call"

Decide ==
    /\ pc = "call"
    /\ blocks' = HeapAfterMerge(Normalize(events),
                                merge_overlaps(ExpandAllDay(Normalize(events))))
    /\ blocks_for_slots' = merge_overlaps(ExpandAllDay(Normalize(events)))
    /\ IF decide_availability_raises(query, cfg)
       THEN result' = NoResult /\ pc' = "raised"
       ELSE result' = decide_availability(query, events, cfg) /\ pc' = "done"
    /\ UNCHANGED <<tasks, settings, cfg, now, slot_now, now_wd, query, events, call, ret>>

Next == Decide

Spec == Init /\ [][Next]_vars

\* the call made by handle_query: cfg is the settings object itself
InitProd == Init /\ cfg = settings

SpecProd == InitProd /\ [][Next]_vars

-----------------------------------------------------------------------------
(* One call of _merge_overlaps(blocks) *)

InitMerge ==
    /\ settings \in {Settings(p) : p \in EdgePolicies}
    /\ cfg = settings
    /\ now = 8 * 60 + 15
    /\ slot_now = now
    /\ tasks = << >>
    /\ now_wd = 3
    /\ query = << >>
    /\ \E n \in 0..MaxBlocks : \E f \in [1..n -> WellFormedRawEvents] : events = Titled(f)
    /\ blocks = Normalize(events)
    /\ blocks_for_slots = << >>
    /\ result = NoResult
    /\ call = [NoCall EXCEPT !.fn = "_merge_overlaps",
                             !.blocks = ExpandAllDay(Normalize(events))]
    /\ ret = << >>
    /\ pc = "call"

Merge ==
    /\ pc = "call"
    /\ call.fn = "_merge_overlaps"
    /\ ret' = merge_overlaps(call.blocks)
    /\ blocks' = HeapAfterMerge(blocks, merge_overlaps(call.blocks))
    /\ pc' = "done"
    /\ UNCHANGED <<tasks, settings, cfg, now, slot_now, now_wd, query, events, blocks_for_slots, result, call>>

NextMerge == Merge

SpecMerge == InitMerge /\ [][NextMerge]_vars

-----------------------------------------------------------------------------
(* One call of _suggest_slots_in_window(blocks, win_start, win_end,        *)
(* duration_min, max_suggestions) on a merged list                         *)

WindowTimes == { Tomorrow(9), Tomorrow(11) + 30, Tomorrow(13) }

Durations == { 0, 30, 60 }

InitSlots ==
    /\ settings = Settings("exclusive_end")
    /\ cfg = settings
    /\ now = 8 * 60 + 15
    /\ slot_now = now
    /\ tasks = << >>
    /\ now_wd = 3
    /\ query = << >>
    /\ \E n \in 0..MaxEvents : \E f \in [1..n -> WellFormedRawEvents] : events = Titled(f)
    /\ blocks = Normalize(events)
    /\ blocks_for_slots = << >>
    /\ result = NoResult
    /\ call \in { [fn |-> "_suggest_slots_in_window",
                   blocks |-> merge_overlaps(ExpandAllDay(Normalize(events))),
                   win_start |-> ws, win_end |-> we,
                   duration_min |-> d, max_suggestions |-> k] :
                  ws \in WindowTimes, we \in WindowTimes, d \in Durations,
                  k \in 0..MaxSuggestions }
    /\ ret = << >>
    /\ pc = "call"

SuggestInWindow ==
    /\ pc = "call"
    /\ call.fn = "_suggest_slots_in_window"
    /\ ret' = suggest_slots_in_window(call.blocks, call.win_start, call.win_end,
                                      call.duration_min, call.max_suggestions)
    /\ pc' = "done"
    /\ UNCHANGED <<tasks, settings, cfg, now, slot_now, now_wd, query, events, blocks, blocks_for_slots,
                   result, call>>

NextSlots == SuggestInWindow

SpecSlots == InitSlots /\ [][NextSlots]_vars

-----------------------------------------------------------------------------
(* One call of decide_availability(query, events, settings) under other     *)
(* WORK_HOURS_START / WORK_HOURS_END settings, on queries of both paths      *)

\* the Settings record with the two work-hour strings as given
SettingsWith(policy, work_start, work_end) ==
    [WORK_HOURS_START |-> work_start, WORK_HOURS_END |-> work_end,
     AVAILABILITY_EDGE_POLICY |-> policy]

\* (WORK_HOURS_START, WORK_HOURS_END): the defaults, "10:30" as start, the two
\* exchanged, "25:00" as start, and an end such as "6pm" that is no "HH:MM"
WorkHourPairs ==
    { << <<9, 0>>, <<18, 0>> >>,
      << <<10, 30>>, <<18, 0>> >>,
      << <<18, 0>>, <<9, 0>> >>,
      << <<25, 0>>, <<18, 0>> >>,
      << <<9, 0>>, << >> >> }

CfgQueries ==
    { <<W("book"), N(30, 0), W("min"), W("after"), N(10, 0), W("tomorrow")>>,
      <<W("book"), N(60, 0), W("min"), W("after"), N(8, 0), W("tomorrow")>>,
      <<W("book"), N(30, 0), W("min"), W("after"), N(19, 0), W("tomorrow")>>,
      <<W("any"), W("slot"), W("this"), W("fri"), W("morning")>>,
      <<W("any"), W("slot"), W("this"), W("fri"), W("for"), N(60, 0), W("min")>>,
      <<W("any"), W("slot"), W("tomorrow"), W("for"), N(60, 0), W("min")>>,
      <<W("am"), W("i"), W("free"), W("tomorrow"), W("at"), N(11, 0)>>,
      <<W("tomorrow"), W("morning")>>,
      <<W("hello")>> }

InitCfg ==
    /\ \E p \in EdgePolicies : \E wh \in WorkHourPairs : cfg = SettingsWith(p, wh[1], wh[2])
    /\ settings = cfg
    /\ now = 8 * 60 + 15
    /\ slot_now = now
    /\ tasks = << >>
    /\ now_wd = 3
    /\ query \in CfgQueries
    /\ \E n \in 0..MaxEvents : \E f \in [1..n -> WellFormedRawEvents] : events = Titled(f)
    /\ blocks = << >>
    /\ blocks_for_slots = << >>
    /\ result = NoResult
    /\ call = NoCall
    /\ ret = << >>
    /\ pc = "call"

SpecCfg == InitCfg /\ [][Next]_vars

-----------------------------------------------------------------------------
(* Two calls of decide_availability with the same query, events, cfg, now    *)
(* and zone: the second in a process whose settings object holds either     *)
(* edge policy, and with the clock read by parse_slot_intent either in the  *)
(* same minute as by parse_query_to_windows or in the next one              *)

\* datetime.now(tz) at the call: in the morning, and in the last minute of the day
NowTimes == { 8 * 60 + 15, 23 * 60 + 59 }

InitTwice ==
    /\ cfg \in {Settings(p) : p \in EdgePolicies}
    /\ settings = cfg
    /\ now \in NowTimes
    /\ slot_now = now
    /\ tasks = << >>
    /\ now_wd = 3
    /\ query \in Queries
    /\ \E n \in 0..MaxEvents : \E f \in [1..n -> WellFormedRawEvents] : events = Titled(f)
    /\ blocks = << >>
    /\ blocks_for_slots = << >>
    /\ result = NoResult
    /\ call = NoCall
    /\ ret = << >>
    /\ pc = "call"

\* the caller keeps the first result and calls again with the same arguments
CallAgain ==
    /\ pc = "done"
    /\ ret' = <<result>>
    /\ settings' \in {Settings(p) : p \in EdgePolicies}
    /\ slot_now' \in {now, now + 1}
    /\ pc' = "call2"
    /\ UNCHANGED <<tasks, cfg, now, now_wd, query, events, blocks, blocks_for_slots, result, call>>

DecideAgain ==
    /\ pc = "call2"
    /\ blocks' = HeapAfterMerge(Normalize(events),
                                merge_overlaps(ExpandAllDay(Normalize(events))))
    /\ blocks_for_slots' = merge_overlaps(ExpandAllDay(Normalize(events)))
    /\ IF decide_availability_raises(query, cfg)
       THEN result' = NoResult /\ pc' = "raised"
       ELSE result' = decide_availability(query, events, cfg) /\ pc' = "done2"
    /\ UNCHANGED <<tasks, settings, cfg, now, slot_now, now_wd, query, events, call, ret>>

NextTwice == Decide \/ CallAgain \/ DecideAgain

SpecTwice == InitTwice /\ [][NextTwice]_vars

-----------------------------------------------------------------------------
(* One call of decide_availability or of suggest_slots on events some of    *)
(* whose "start" or "end" is no ISO-8601 string, or is missing              *)

\* start and end strings: two that parse and one that does not (for a missing
\* key the KeyError is caught by the same except clause)
DropStamps ==
    { IsoNaive(Tomorrow(10)),
      IsoOffset(Tomorrow(11), ZoneOffset),
      IsoBad }

DropEvents ==
    { [title |-> "", start |-> s, end |-> e, all_day |-> a] :
        s \in DropStamps, e \in DropStamps, a \in BOOLEAN }

InitDrop ==
    /\ cfg \in {Settings(p) : p \in EdgePolicies}
    /\ settings = cfg
    /\ now = 8 * 60 + 15
    /\ slot_now = now
    /\ tasks = << >>
    /\ now_wd = 3
    /\ query \in Queries
    /\ \E n \in 0..MaxEvents : \E f \in [1..n -> DropEvents] : events = Titled(f)
    /\ blocks = << >>
    /\ blocks_for_slots = << >>
    /\ result = NoResult
    /\ call = NoCall
    /\ ret = << >>
    /\ pc = "call"

\* suggest_slots(query, events, cfg) called directly, max_suggestions = 2
SuggestSlots ==
    /\ pc = "call"
    /\ call' = [NoCall EXCEPT !.fn = "suggest_slots", !.max_suggestions = 2]
    /\ IF suggest_slots_raises(query, cfg)
       THEN ret' = << >> /\ pc' = "raised"
       ELSE ret' = suggest_slots(query, events, cfg, 2) /\ pc' = "done"
    /\ UNCHANGED <<tasks, settings, cfg, now, slot_now, now_wd, query, events, blocks,
                   blocks_for_slots, result>>

NextDrop == Decide \/ SuggestSlots

SpecDrop == InitDrop /\ [][NextDrop]_vars

-----------------------------------------------------------------------------
(* One call of parse_query_to_windows(text, tz) or parse_slot_intent(text,  *)
(* tz) on texts of every pattern, with hour and minute digits in and out of *)
(* range and every weekday spelling                                         *)

\* "9", "23:59", "24:60", "99:99"
ParseNumbers == { N(9, 0), N(23, 59), N(24, 60), N(99, 99) }

\* "14-15", "15-14", "99:99-24:60"
ParseRanges == { R(14, 0, 15, 0), R(15, 0, 14, 0), R(99, 99, 24, 60) }

ParseQueries ==
    { <<W(d), n>> : d \in DayWords, n \in ParseNumbers }
    \cup { <<W(d), W("at"), n>> : d \in DayWords, n \in ParseNumbers }
    \cup { <<W("next"), W(wd), r>> : wd \in WeekDays, r \in ParseRanges }
    \cup { <<W(d), W(p)>> : d \in DayWords, p \in DayParts }
    \cup { <<W("at"), n>> : n \in ParseNumbers }
    \cup { <<W("book"), N(999, 0), W(u), W("after"), n>> :
              u \in DurUnits, n \in ParseNumbers }
    \cup { <<W("find"), N(30, 0), W("min"), W("after"), W(d), n>> :
              d \in DayWords, n \in ParseNumbers }
    \cup { <<W("schedule"), N(30, 0), W("min"), W("after"), n, W(d)>> :
              d \in DayWords, n \in ParseNumbers }
    \cup { <<W("any"), W("slot"), W(tn), W(wd)>> :
              tn \in {"this", "next"}, wd \in WeekDays }
    \cup { <<W("any"), W("slot"), W(tn), W(wd), W(p), W("for"), N(999, 0), W("m")>> :
              tn \in {"this", "next"}, wd \in WeekDays, p \in DayParts }
    \cup { <<W("any"), W("slot"), W(d), W("for"), N(0, 0), W("min")>> : d \in DayWords }
    \cup { << >>, <<W("hello")>>, <<W("after"), W("book")>> }

InitParse ==
    /\ settings = Settings("exclusive_end")
    /\ cfg = settings
    /\ now \in NowTimes
    /\ slot_now = now
    /\ tasks = << >>
    /\ now_wd = 3
    /\ query \in ParseQueries
    /\ events = << >>
    /\ blocks = << >>
    /\ blocks_for_slots = << >>
    /\ result = NoResult
    /\ call = NoCall
    /\ ret = << >>
    /\ pc = "call"

\* parse_query_to_windows(query, tz): ret is the list of windows
ParseWindows ==
    /\ pc = "call"
    /\ call' = [NoCall EXCEPT !.fn = "parse_query_to_windows"]
    /\ IF parse_query_to_windows_raises(query)
       THEN ret' = << >> /\ pc' = "raised"
       ELSE ret' = parse_query_to_windows(query) /\ pc' = "done"
    /\ UNCHANGED <<tasks, settings, cfg, now, slot_now, now_wd, query, events, blocks,
                   blocks_for_slots, result>>

\* parse_slot_intent(query, tz): ret holds the intent
ParseIntent ==
    /\ pc = "call"
    /\ call' = [NoCall EXCEPT !.fn = "parse_slot_intent"]
    /\ IF parse_slot_intent_raises(query)
       THEN ret' = << >> /\ pc' = "raised"
       ELSE ret' = <<parse_slot_intent(query)>> /\ pc' = "done"
    /\ UNCHANGED <<tasks, settings, cfg, now, slot_now, now_wd, query, events, blocks,
                   blocks_for_slots, result>>

NextParse == ParseWindows \/ ParseIntent

SpecParse == InitParse /\ [][NextParse]_vars

-----------------------------------------------------------------------------
(* Calls of decide_availability(query, events, settings) running side by    *)
(* side, as handle_query makes them from concurrent requests: every call    *)
(* has a frame of its own locals, and any call may take the next step       *)

TaskIds == {1, 2}

\* a new frame: the locals unbound, the call at its first statement
Frame(q) ==
    [query |-> q, windows |-> << >>, blocks |-> << >>, blocks_for_slots |-> << >>,
     result |-> NoResult, pc |-> "parse"]

ConcQueries ==
    { <<W("am"), W("i"), W("free"), W("tomorrow"), W("at"), N(11, 0)>>,
      <<W("tomorrow"), W("morning")>>,
      <<W("any"), W("slot"), W("tomorrow"), W("morning"), W("for"), N(60, 0), W("min")>>,
      <<W("book"), N(30, 0), W("min"), W("after"), N(10, 0), W("tomorrow")>> }

ConcEvents ==
    { [title |-> "", start |-> IsoNaive(Tomorrow(10)),
       end |-> IsoOffset(Tomorrow(11), ZoneOffset), all_day |-> FALSE],
      [title |-> "", start |-> IsoOffset(Tomorrow(11), ZoneOffset),
       end |-> IsoOffset(Tomorrow(12) - ZoneOffset, 0), all_day |-> FALSE],
      [title |-> "", start |-> IsoNaive(Tomorrow(10)),
       end |-> IsoOffset(Tomorrow(12) - ZoneOffset, 0), all_day |-> FALSE],
      [title |-> "", start |-> IsoNaive(Tomorrow(10)),
       end |-> IsoNaive(Tomorrow(10)), all_day |-> TRUE] }

\* the locals kept in names of the module: one frame, that of the first
\* call, for every call
LocalsOfOneFrame(ts, p) == ts[1]

\* the locals of call p: names bound in the call's own frame
Locals(ts, p) == ts[p]

\* decide_availability from "if not windows" on, on the locals as they are
\* after blocks_for_slots was computed
DecideFrom(q, evs, c, windows, bs, merged) ==
    IF windows = << >> THEN
        LET suggestions == suggest_slots(q, evs, c, 2)
        IN  IF suggestions # << >>
            THEN AvailabilityResult("unknown", << >>,
                     Explanation("Suggested slots available.", "", 0, 0), suggestions)
            ELSE AvailabilityResult("unknown", << >>,
                     Explanation("Could not resolve a specific time window.", "", 0, 0),
                     << >>)
    ELSE DecideWindow(q, bs, merged, windows[1][1], windows[1][2])

InitConc ==
    /\ settings \in {Settings(p) : p \in EdgePolicies}
    /\ cfg = settings
    /\ now = 8 * 60 + 15
    /\ slot_now = now
    /\ now_wd = 3
    /\ query = << >>
    /\ \E n \in 0..MaxEvents : \E f \in [1..n -> ConcEvents] : events = Titled(f)
    /\ blocks = << >>
    /\ blocks_for_slots = << >>
    /\ result = NoResult
    /\ call = NoCall
    /\ ret = << >>
    /\ pc = "call"
    /\ tasks \in {[p \in TaskIds |-> Frame(f[p])] : f \in [TaskIds -> ConcQueries]}

\* windows = parse_query_to_windows(query_text, tz=tz)
TaskParse(p) ==
    /\ tasks[p].pc = "parse"
    /\ tasks' = [tasks EXCEPT ![p].windows = parse_query_to_windows(Locals(tasks, p).query),
                              ![p].pc = "normalize"]

\* the normalisation loop
TaskNormalize(p) ==
    /\ tasks[p].pc = "normalize"
    /\ tasks' = [tasks EXCEPT ![p].blocks = Normalize(events),
                              ![p].pc = "merge"]

\* blocks_for_slots = _merge_overlaps(_expand_all_day(blocks))
TaskMerge(p) ==
    /\ tasks[p].pc = "merge"
    /\ LET bs == Locals(tasks, p).blocks
           merged == merge_overlaps(ExpandAllDay(bs))
       IN  tasks' = [tasks EXCEPT ![p].blocks_for_slots = merged,
                                  ![p].blocks = HeapAfterMerge(bs, merged),
                                  ![p].pc = "decide"]

\* conflict detection and slot finding, to the return
TaskDecide(p) ==
    /\ tasks[p].pc = "decide"
    /\ LET l == Locals(tasks, p)
       IN  tasks' = [tasks EXCEPT ![p].result = DecideFrom(l.query, events, cfg, l.windows,
                                                           l.blocks, l.blocks_for_slots),
                                  ![p].pc = "done"]

NextConc ==
    \E p \in TaskIds :
        /\ TaskParse(p) \/ TaskNormalize(p) \/ TaskMerge(p) \/ TaskDecide(p)
        /\ UNCHANGED <<settings, cfg, now, slot_now, now_wd, query, events, blocks,
                       blocks_for_slots, result, call, ret, pc>>

SpecConc == InitConc /\ [][NextConc]_vars

-----------------------------------------------------------------------------
(* One call of decide_availability(query, events, settings) on queries that *)
(* hold a window pattern, a slot intent, both of them or neither            *)

MixedQueries ==
    { <<W("tomorrow"), W("morning")>>,
      <<W("any"), W("slot"), W("tomorrow"), W("morning"), W("for"), N(60, 0), W("min")>>,
      <<W("any"), W("slot"), W("tomorrow"), W("morning"), W("for"), N(240, 0), W("min")>>,
      <<W("next"), W("fri"), R(11, 0, 12, 0), W("any"), W("slot"), W("tomorrow"),
        W("for"), N(60, 0), W("min")>>,
      <<W("any"), W("slot"), W("tomorrow"), W("at"), N(11, 0)>>,
      <<W("book"), N(30, 0), W("min"), W("after"), W("tomorrow"), N(10, 0)>>,
      <<W("book"), N(30, 0), W("min"), W("after"), N(10, 0), W("tomorrow")>>,
      <<W("any"), W("slot"), W("this"), W("fri"), W("morning")>>,
      <<W("any"), W("slot"), W("this"), W("fri"), W("evening"), W("for"), N(300, 0), W("min")>>,
      <<W("hello")>> }

InitMixed ==
    /\ settings \in {Settings(p) : p \in EdgePolicies}
    /\ cfg = settings
    /\ now = 8 * 60 + 15
    /\ slot_now = now
    /\ tasks = << >>
    /\ now_wd = 3
    /\ query \in MixedQueries
    /\ \E n \in 0..MaxEvents : \E f \in [1..n -> RawEvents] : events = Titled(f)
    /\ blocks = << >>
    /\ blocks_for_slots = << >>
    /\ result = NoResult
    /\ call = NoCall
    /\ ret = << >>
    /\ pc = "call"

SpecMixed == InitMixed /\ [][Next]_vars

-----------------------------------------------------------------------------
(* app/core/intent.py: one call of classify_intent(text).  Here a string is *)
(* the sequence of its characters                                           *)

\* str.lower() on one character
LowerChar(c) ==
    CASE c = "A" -> "a"
      [] c = "B" -> "b"
      [] c = "C" -> "c"
      [] c = "D" -> "d"
      [] c = "E" -> "e"
      [] c = "F" -> "f"
      [] c = "G" -> "g"
      [] c = "H" -> "h"
      [] c = "I" -> "i"
      [] c = "J" -> "j"
      [] c = "K" -> "k"
      [] c = "L" -> "l"
      [] c = "M" -> "m"
      [] c = "N" -> "n"
      [] c = "O" -> "o"
      [] c = "P" -> "p"
      [] c = "Q" -> "q"
      [] c = "R" -> "r"
      [] c = "S" -> "s"
      [] c = "T" -> "t"
      [] c = "U" -> "u"
      [] c = "V" -> "v"
      [] c = "W" -> "w"
      [] c = "X" -> "x"
      [] c = "Y" -> "y"
      [] c = "Z" -> "z"
      [] OTHER -> c

\* str.lower()
Lower(s) == [i \in 1..Len(s) |-> LowerChar(s[i])]

\* t in s
Contains(s, t) ==
    \E i \in 0..(Len(s) - Len(t)) : \A j \in 1..Len(t) : s[i + j] = t[j]

\* cal_terms without "slot"
cal_termsNoSlot ==
    { <<"a", "m", " ", "i", " ", "f", "r", "e", "e">>,
      <<"f", "r", "e", "e", " ", "a", "t">>,
      <<"b", "u", "s", "y", " ", "a", "t">>,
      <<"t", "o", "m", "o", "r", "r", "o", "w">>,
      <<"t", "o", "d", "a", "y">>,
      <<"n", "e", "x", "t", " ">>,
      <<"b", "o", "o", "k">>,
      <<"s", "c", "h", "e", "d", "u", "l", "e">>,
      <<"r", "e", "s", "c", "h", "e", "d", "u", "l", "e">>,
      <<"m", "o", "r", "n", "i", "n", "g">>,
      <<"a", "f", "t", "e", "r", "n", "o", "o", "n">>,
      <<"e", "v", "e", "n", "i", "n", "g">> }

\* cal_terms
cal_terms ==
    { <<"a", "m", " ", "i", " ", "f", "r", "e", "e">>,
      <<"f", "r", "e", "e", " ", "a", "t">>,
      <<"b", "u", "s", "y", " ", "a", "t">>,
      <<"t", "o", "m", "o", "r", "r", "o", "w">>,
      <<"t", "o", "d", "a", "y">>,
      <<"n", "e", "x", "t", " ">>,
      <<"s", "l", "o", "t">>,
      <<"b", "o", "o", "k">>,
      <<"s", "c", "h", "e", "d", "u", "l", "e">>,
      <<"r", "e", "s", "c", "h", "e", "d", "u", "l", "e">>,
      <<"m", "o", "r", "n", "i", "n", "g">>,
      <<"a", "f", "t", "e", "r", "n", "o", "o", "n">>,
      <<"e", "v", "e", "n", "i", "n", "g">> }

\* classify_intent
classify_intent(text) ==
    LET s == Lower(text)
    IN  IF \E t \in cal_terms : Contains(s, t) THEN "calendar"
        ELSE IF Contains(s, <<"n", "o", "t", "i", "o", "n">>) \/ Contains(s, <<"n", "o", "t", "e", "s">>) \/ Contains(s, <<"m", "e", "e", "t", "i", "n", "g", " ", "n", "o", "t", "e", "s">>)
        THEN "notes"
        ELSE IF Contains(s, <<"g", "i", "t", "h", "u", "b">>) \/ Contains(s, <<"p", "r", " ">>) \/ Contains(s, <<"i", "s", "s", "u", "e", " ">>)
        THEN "code"
        ELSE "general"

\* what stands before the middle of a text
TextHeads ==
    { << >>, <<"m", "e", "e", "t", "i", "n", "g", " ", "n", "o", "t", "e", "s", " ">>, <<"G", "i", "t", "H", "u", "b", " ", "P", "R", " ">>, <<"N", "o", "t", "i", "o", "n", ":", " ">>, <<"x">> }

\* the middle: "any slot" in several cases, and near misses of it
TextCores ==
    { <<"a", "n", "y", " ", "s", "l", "o", "t">>, <<"A", "N", "Y", " ", "S", "L", "O", "T">>, <<"A", "n", "y", " ", "S", "l", "o", "t">>, <<"a", "N", "y", " ", "s", "L", "o", "T">>, <<"a", "n", "y", " ", " ", "s", "l", "o", "t">>, <<"a", "n", "y", " ", "s", "l", "o">>, <<"a", "n", "y", "s", "l", "o", "t">>, << >> }

\* what stands after it
TextTails ==
    { << >>, <<"s", " ", "i", "n", " ", "n", "o", "t", "e", "s">>, <<" ", "i", "s", "s", "u", "e", " ", "7">>, <<" ", "t", "o", "d", "a", "y">> }

Texts == { h \o c \o t : h \in TextHeads, c \in TextCores, t \in TextTails }

InitClassify ==
    /\ settings = Settings("exclusive_end")
    /\ cfg = settings
    /\ now = 8 * 60 + 15
    /\ slot_now = now
    /\ tasks = << >>
    /\ now_wd = 3
    /\ query \in Texts
    /\ events = << >>
    /\ blocks = << >>
    /\ blocks_for_slots = << >>
    /\ result = NoResult
    /\ call = [NoCall EXCEPT !.fn = "classify_intent"]
    /\ ret = << >>
    /\ pc = "call"

Classify ==
    /\ pc = "call"
    /\ call.fn = "classify_intent"
    /\ ret' = <<classify_intent(query)>>
    /\ pc' = "done"
    /\ UNCHANGED <<tasks, settings, cfg, now, slot_now, now_wd, query, events, blocks,
                   blocks_for_slots, result, call>>

NextClassify == Classify

SpecClassify == InitClassify /\ [][NextClassify]_vars

-----------------------------------------------------------------------------
(* One call of parse_query_to_windows or parse_slot_intent on a query that  *)
(* names a weekday, on every day of the week                                *)

WeekdayQueries ==
    { <<W("next"), W(wd), R(14, 0, 15, 0)>> : wd \in WeekDays }
    \cup { <<W("any"), W("slot"), W(tn), W(wd)>> :
              tn \in {"this", "next"}, wd \in WeekDays }
    \cup { <<W("any"), W("slot"), W(tn), W(wd), W("evening")>> :
              tn \in {"this", "next"}, wd \in WeekDays }

InitWeekday ==
    /\ settings = Settings("exclusive_end")
    /\ cfg = settings
    /\ now \in NowTimes
    /\ slot_now = now
    /\ tasks = << >>
    /\ now_wd \in 0..6
    /\ query \in WeekdayQueries
    /\ events = << >>
    /\ blocks = << >>
    /\ blocks_for_slots = << >>
    /\ result = NoResult
    /\ call = NoCall
    /\ ret = << >>
    /\ pc = "call"

SpecWeekday == InitWeekday /\ [][NextParse]_vars

-----------------------------------------------------------------------------
(* One call of _suggest_slots_in_window on the merged list of events that   *)
(* lie before, over and after the bounds of the window                      *)

TimedEvent(from, to) ==
    [title |-> "", start |-> IsoNaive(from), end |-> IsoNaive(to), all_day |-> FALSE]

WindowEvents ==
    { TimedEvent(Tomorrow(8), Tomorrow(10)),
      TimedEvent(Tomorrow(10), Tomorrow(11)),
      TimedEvent(Tomorrow(11), Tomorrow(14)),
      TimedEvent(Tomorrow(12), Tomorrow(12) + 30),
      TimedEvent(Tomorrow(12), Tomorrow(10)),
      [title |-> "", start |-> IsoNaive(Tomorrow(10)), end |-> IsoNaive(Tomorrow(10)),
       all_day |-> TRUE] }

InitWindow ==
    /\ settings \in {Settings(p) : p \in EdgePolicies}
    /\ cfg = settings
    /\ now = 8 * 60 + 15
    /\ slot_now = now
    /\ tasks = << >>
    /\ now_wd = 3
    /\ query = << >>
    /\ \E n \in 0..MaxEvents : \E f \in [1..n -> WindowEvents] : events = Titled(f)
    /\ blocks = Normalize(events)
    /\ blocks_for_slots = << >>
    /\ result = NoResult
    /\ call \in { [fn |-> "_suggest_slots_in_window",
                   blocks |-> merge_overlaps(ExpandAllDay(Normalize(events))),
                   win_start |-> ws, win_end |-> we,
                   duration_min |-> d, max_suggestions |-> k] :
                  ws \in WindowTimes, we \in WindowTimes, d \in Durations,
                  k \in 0..MaxSuggestions }
    /\ ret = << >>
    /\ pc = "call"

SpecWindow == InitWindow /\ [][NextSlots]_vars

-----------------------------------------------------------------------------
(* Vocabulary of the properties *)

Done == pc = "done"

HasWindow == parse_query_to_windows(query) # << >>

WStart == parse_query_to_windows(query)[1][1]

WEnd == parse_query_to_windows(query)[1][2]

PointQuery == HasWindow /\ WStart = WEnd

RangeQuery == HasWindow /\ WStart < WEnd

Busy == result.availability = "busy"

\* the span of an input event itself: the civil day of its start when all-day
OwnStart(ev) == IF ev.all_day THEN Midnight(ParseIso(ev.start)) ELSE ParseIso(ev.start)

OwnEnd(ev) == IF ev.all_day THEN Midnight(ParseIso(ev.start)) + DayMin ELSE ParseIso(ev.end)

\* [s, e] overlaps [ws, we] under the named edge policy
OverlapsUnder(policy, s, e, ws, we) ==
    IF policy = "inclusive" THEN ws <= e /\ s <= we ELSE ws < e /\ s < we

\* [s, e] is in conflict with the parsed window under the named edge policy
ConflictsUnder(policy, s, e) ==
    IF WStart = WEnd
    THEN s <= WStart /\ (WStart < e \/ (policy = "inclusive" /\ WStart <= e))
    ELSE OverlapsUnder(policy, s, e, WStart, WEnd)

\* input event j is among the reported conflicts
Reported(j) == \E i \in 1..Len(result.conflicts) : result.conflicts[i].title = events[j].title

\* the duration the query asks for on the path decide_availability takes
RequestedDuration ==
    LET intent == parse_slot_intent(query)
    IN  IF ~HasWindow THEN intent.duration_min
        ELSE IF intent.mode = "day_window" THEN intent.duration_min
        ELSE 30

-----------------------------------------------------------------------------
(* Properties *)

\* C1: whenever the result is "busy", conflicts is non-empty and every
\* reported conflict is an input event whose own span (its civil day when
\* all-day) overlaps the parsed window under the configured edge policy.
C1_BusyConflictsOverlapWindow ==
    (Done /\ Busy) =>
        /\ result.conflicts # << >>
        /\ \A i \in 1..Len(result.conflicts) :
              \E j \in 1..Len(events) :
                  /\ EventParses(events[j])
                  /\ result.conflicts[i].title = events[j].title
                  /\ ConflictsUnder(cfg.AVAILABILITY_EDGE_POLICY,
                                    OwnStart(events[j]), OwnEnd(events[j]))

\* C2: every reported conflict carries the title, start and end of its input
\* event, the timestamps converted to the configured zone, never a span
\* widened by merging.
C2_ConflictsKeepOwnSpan ==
    Done =>
        \A i \in 1..Len(result.conflicts) :
            \E j \in 1..Len(events) :
                /\ EventParses(events[j])
                /\ result.conflicts[i].title = events[j].title
                /\ result.conflicts[i].start = IsoFormat(ParseIso(events[j].start))
                /\ result.conflicts[i].end = IsoFormat(ParseIso(events[j].end))

\* C3: every suggested slot lasts exactly the requested duration and does
\* not overlap any input busy block under the configured edge policy: only
\* under exclusive_end may it start at a block's end or end at a block's start.
C3_SlotsHaveDurationAndAreFree ==
    Done =>
        \A i \in 1..Len(result.suggested_slots) :
            LET s == ParseIso(result.suggested_slots[i].start)
                e == ParseIso(result.suggested_slots[i].end)
            IN  /\ e - s = RequestedDuration
                /\ \A j \in 1..Len(events) :
                      EventParses(events[j]) =>
                          ~OverlapsUnder(cfg.AVAILABILITY_EDGE_POLICY,
                                         OwnStart(events[j]), OwnEnd(events[j]), s, e)

\* the same with overlap read as under exclusive_end whatever the policy
SlotsHaveDurationAndShareNoTime ==
    Done =>
        \A i \in 1..Len(result.suggested_slots) :
            LET s == ParseIso(result.suggested_slots[i].start)
                e == ParseIso(result.suggested_slots[i].end)
            IN  /\ e - s = RequestedDuration
                /\ \A j \in 1..Len(events) :
                      EventParses(events[j]) =>
                          ~OverlapsUnder("exclusive_end",
                                         OwnStart(events[j]), OwnEnd(events[j]), s, e)

\* C4: the slot finder returns suggestions strictly increasing by start, at
\* most max_suggestions of them.
C4_SlotsOrderedAndAtMostMax ==
    Done =>
        /\ Len(ret) <= call.max_suggestions
        /\ \A i \in 1..(Len(ret) - 1) : ParseIso(ret[i].start) < ParseIso(ret[i + 1].start)

\* C5: for a point window at T and events that are not all-day, the result is
\* "busy" exactly when some event has start <= T < end, every such event is
\* reported, and otherwise the result is "free" with no conflicts.
C5_PointBusyIffCovered ==
    (Done /\ PointQuery /\ \A j \in 1..Len(events) : ~events[j].all_day) =>
        LET covering == {j \in 1..Len(events) :
                            /\ EventParses(events[j])
                            /\ ParseIso(events[j].start) <= WStart
                            /\ WStart < ParseIso(events[j].end)}
        IN  /\ Busy <=> covering # {}
            /\ \A j \in covering : Reported(j)
            /\ covering = {} => (result.availability = "free" /\ result.conflicts = << >>)

\* a point query at the start of one event and the end of another
C5_Witness ==
    /\ Done /\ PointQuery /\ Busy
    /\ \A j \in 1..Len(events) : ~events[j].all_day
    /\ \E j, k \in 1..Len(events) :
          /\ ParseIso(events[j].start) = WStart /\ WStart < ParseIso(events[j].end)
          /\ ParseIso(events[k].start) < WStart /\ ParseIso(events[k].end) = WStart

\* C6: with edge policy "inclusive" a point query at T equal to an event's end
\* is "busy" with that event as a conflict; with "exclusive_end" it is free
\* when no other event covers T.
C6_InclusivePointAtEndIsBusy ==
    (Done /\ PointQuery) =>
        \A j \in 1..Len(events) :
            (/\ EventParses(events[j]) /\ ~events[j].all_day
             /\ ParseIso(events[j].start) < WStart
             /\ ParseIso(events[j].end) = WStart) =>
                IF cfg.AVAILABILITY_EDGE_POLICY = "inclusive"
                THEN Busy /\ Reported(j)
                ELSE Len(events) = 1 => result.availability = "free"

\* C7: for a range window, an event that ends exactly at w_start or starts
\* exactly at w_end conflicts exactly when the edge policy of the
\* configuration passed to decide_availability is "inclusive".
C7_BackToBackFollowsCfgPolicy ==
    (Done /\ RangeQuery) =>
        \A j \in 1..Len(events) :
            (/\ EventParses(events[j]) /\ ~events[j].all_day
             /\ ParseIso(events[j].start) < ParseIso(events[j].end)
             /\ \/ ParseIso(events[j].end) = WStart
                \/ ParseIso(events[j].start) = WEnd) =>
                (Reported(j) <=> cfg.AVAILABILITY_EDGE_POLICY = "inclusive")

\* C8: for a point query, an all-day event is reported as a conflict exactly
\* when the civil date of its start equals the civil date of the query
\* instant, whatever its clock time and its end.
C8_AllDayPointByCivilDate ==
    (Done /\ PointQuery) =>
        \A j \in 1..Len(events) :
            (EventParses(events[j]) /\ events[j].all_day) =>
                (Reported(j) <=> Midnight(ParseIso(events[j].start)) = Midnight(WStart))

\* a point query earlier in the day than the start of a reported all-day
\* event, while an all-day event of the next day is not reported
C8_Witness ==
    /\ Done /\ PointQuery
    /\ \E j, k \in 1..Len(events) :
          /\ events[j].all_day /\ WStart < ParseIso(events[j].start) /\ Reported(j)
          /\ events[k].all_day /\ ~Reported(k)

\* C9: for a range window, an all-day event is a conflict, and the result
\* "busy", exactly when the civil day of its start overlaps the window under
\* the edge policy.
C9_AllDayRangeByCivilDay ==
    (Done /\ RangeQuery) =>
        \A j \in 1..Len(events) :
            (EventParses(events[j]) /\ events[j].all_day) =>
                /\ Reported(j) <=> OverlapsUnder(cfg.AVAILABILITY_EDGE_POLICY,
                                                 OwnStart(events[j]), OwnEnd(events[j]),
                                                 WStart, WEnd)
                /\ Reported(j) => Busy

\* the instants at which a block of the input or of the output starts or ends
MergeGrid ==
    {call.blocks[i].start : i \in 1..Len(call.blocks)}
        \cup {call.blocks[i].end : i \in 1..Len(call.blocks)}

\* the instants of the grid a list covers
CoveredPoints(bs) ==
    {t \in MergeGrid : \E i \in 1..Len(bs) : bs[i].start <= t /\ t <= bs[i].end}

\* the intervals between neighbouring instants of the grid a list covers
CoveredCells(bs) ==
    {c \in MergeGrid \X MergeGrid :
        /\ c[1] < c[2]
        /\ ~\E t \in MergeGrid : c[1] < t /\ t < c[2]
        /\ \E i \in 1..Len(bs) : bs[i].start <= c[1] /\ c[2] <= bs[i].end}

\* C10: for blocks with start <= end, under either edge policy, the merge
\* pass returns blocks in which each end is strictly before the next start,
\* and which cover exactly what the input blocks cover.
C10_MergeDisjointSortedSameUnion ==
    Done =>
        /\ \A i \in 1..(Len(ret) - 1) : ret[i].end < ret[i + 1].start
        /\ \A i \in 1..Len(ret) : ret[i].start <= ret[i].end
        /\ \A i \in 1..Len(ret) : ret[i].start \in MergeGrid /\ ret[i].end \in MergeGrid
        /\ CoveredPoints(ret) = CoveredPoints(call.blocks)
        /\ CoveredCells(ret) = CoveredCells(call.blocks)

\* three blocks, two of them only touching, merged into one block longer than
\* each of them
C10_Witness ==
    /\ Done
    /\ Len(call.blocks) = 3 /\ Len(ret) = 1
    /\ \E i, j \in 1..3 : call.blocks[i].end = call.blocks[j].start
                          /\ call.blocks[i].start < call.blocks[i].end
                          /\ call.blocks[j].start < call.blocks[j].end
    /\ \A i \in 1..3 : call.blocks[i].end - call.blocks[i].start < ret[1].end - ret[1].start

\* [s, e] is in conflict with the parsed window by the rule of the conflict
\* detector: start <= T < end for a point window, overlap under the named edge
\* policy for a range window
RuleConflicts(policy, s, e) ==
    IF WStart = WEnd
    THEN s <= WStart /\ WStart < e
    ELSE OverlapsUnder(policy, s, e, WStart, WEnd)

\* C11: whenever the result is "free", conflicts is empty and no input event
\* is in conflict with the parsed window: for a point window at T no event has
\* start <= T < end (its civil day when all-day), for a range window no event
\* overlaps the window under the configured edge policy.
C11_FreeMeansNoEventConflicts ==
    (Done /\ result.availability = "free") =>
        /\ result.conflicts = << >>
        /\ \A j \in 1..Len(events) :
              EventParses(events[j]) =>
                  ~RuleConflicts(cfg.AVAILABILITY_EDGE_POLICY,
                                 OwnStart(events[j]), OwnEnd(events[j]))

\* C12: whenever decide_availability returns, whatever the query, the events
\* and the configuration, availability is "free", "busy" or "unknown".
C12_AvailabilityIsOneOfThree ==
    Done => result.availability \in {"free", "busy", "unknown"}

\* a query with no window and no slot intent returned "unknown"
C12_Witness ==
    /\ Done /\ ~HasWindow /\ parse_slot_intent(query).mode = "none"
    /\ result.availability = "unknown"

\* C14: decide_availability never raises, whatever WORK_HOURS_START and
\* WORK_HOURS_END hold: a fault inside it yields a result with availability
\* "unknown", an explanation, and empty conflicts and suggested_slots.
C14_DecideNeverRaises ==
    (pc # "call") =>
        /\ pc = "done"
        /\ (~HasWindow /\ parse_slot_intent(query).mode # "none" /\ work_window_raises(cfg)) =>
              /\ result.availability = "unknown"
              /\ result.explanation.text # ""
              /\ result.conflicts = << >>
              /\ result.suggested_slots = << >>

\* C13: two calls of decide_availability with the same query, events,
\* configuration, now and zone return equal results, whatever the
\* process-wide settings object holds and however the clock advances between
\* the window parse and the slot-intent parse of a call.
C13_SameInputsSameResult ==
    (pc = "done2") => result = ret[1]

\* the same, the second call made with the settings object unchanged: only
\* the clock read by parse_slot_intent may differ
SameInputsSameSettingsSameResult ==
    (pc = "done2" /\ settings = cfg) => result = ret[1]

\* the same, the second call made with the clock in the same minute: only the
\* settings object may differ
SameInputsSameClockSameResult ==
    (pc = "done2" /\ slot_now = now) => result = ret[1]

\* the list without its j-th element
RemoveAt(seq, j) == SubSeq(seq, 1, j - 1) \o SubSeq(seq, j + 1, Len(seq))

\* C15: an event whose start or end does not parse is dropped without an
\* exception, and decide_availability and suggest_slots return exactly what
\* they return for the event list with that event removed.
C15_UnparsableEventIsAsIfRemoved ==
    /\ pc # "raised"
    /\ Done =>
          \A j \in 1..Len(events) :
              ~EventParses(events[j]) =>
                  IF call.fn = "suggest_slots"
                  THEN ret = suggest_slots(query, RemoveAt(events, j), cfg, 2)
                  ELSE result = decide_availability(query, RemoveAt(events, j), cfg)

\* an event that does not parse comes first in the list, and the event after
\* it is reported as a conflict
C15_Witness ==
    /\ Done /\ call.fn = "" /\ Busy
    /\ Len(events) = 2
    /\ ~EventParses(events[1])
    /\ Reported(2)

\* a query holds a number whose hour or minute digits are out of range
HasOutOfRangeDigits ==
    \E i \in 1..Len(query) :
        /\ query[i].k \in {"n", "r"}
        /\ TimeRaises(query[i].h, query[i].m) \/ TimeRaises(query[i].h2, query[i].m2)

\* C16: for every text, parse_query_to_windows returns a list of windows,
\* empty when no pattern matches, and parse_slot_intent returns an intent or
\* None; neither raises, also not on hour or minute digits out of range nor on
\* any weekday spelling its pattern accepts.
C16_ParsersNeverRaise ==
    /\ pc # "raised"
    /\ (Done /\ call.fn = "parse_query_to_windows") =>
          /\ Len(ret) <= 1
          /\ \A i \in 1..Len(ret) :
                /\ ret[i][1] <= ret[i][2]
                /\ ~TimeRaises((ret[i][1] % DayMin) \div 60, ret[i][1] % 60)
    /\ (Done /\ call.fn = "parse_slot_intent") =>
          /\ ret[1].mode \in {"none", "after_time", "day_window"}
          /\ ret[1].mode = "day_window" => ret[1].start <= ret[1].end

\* "next thurs 99:99-24:60" gave a window at 23:59 of a Thursday
C16_Witness ==
    /\ Done /\ call.fn = "parse_query_to_windows"
    /\ HasOutOfRangeDigits
    /\ IsWord(query, 2, {"thurs"})
    /\ ret # << >>
    /\ ret[1][1] % DayMin = 23 * 60 + 59
    /\ Weekday(ret[1][1]) = 3

\* the call took the standalone slot path with an intent of the given mode
Standalone(mode) == ~HasWindow /\ parse_slot_intent(query).mode = mode

\* the working hours of the day of dt under cfg
WorkStart(dt) == ReplaceTime(dt, cfg.WORK_HOURS_START[1], cfg.WORK_HOURS_START[2])

WorkEnd(dt) == ReplaceTime(dt, cfg.WORK_HOURS_END[1], cfg.WORK_HOURS_END[2])

\* [t, t + n) shares time with no input event (its civil day when all-day)
FreeOfEvents(t, n) ==
    \A j \in 1..Len(events) :
        EventParses(events[j]) =>
            ~OverlapsUnder("exclusive_end", OwnStart(events[j]), OwnEnd(events[j]), t, t + n)

\* the quarter hours of the day of dt
QuarterHours(dt) == {Midnight(dt) + 15 * k : k \in 0..96}

\* C17: on the standalone after-time path ("book N min after HH:MM", no
\* window) the first suggestion starts at the earliest t >= max(after,
\* work_start) for which [t, t + N min) ends by work_end and shares time with
\* no busy block, and ends at t + N min: at `after` itself when nothing is in
\* the way, at the end of an event that starts at `after`.
C17_AfterTimeFirstSlotIsEarliestFit ==
    (Done /\ Standalone("after_time")) =>
        LET intent == parse_slot_intent(query)
            n == intent.duration_min
            fits == {t \in QuarterHours(intent.after) :
                        /\ t >= Max(intent.after, WorkStart(intent.after))
                        /\ t + n <= WorkEnd(intent.after)
                        /\ FreeOfEvents(t, n)}
        IN  /\ result.suggested_slots # << >> <=> fits # {}
            /\ fits # {} =>
                  /\ ParseIso(result.suggested_slots[1].start) = SetMin(fits)
                  /\ ParseIso(result.suggested_slots[1].end) = SetMin(fits) + n

\* "book 30 min after 10 tomorrow" with an event that starts at 10:00: the
\* first suggestion starts at the end of that event
C17_Witness ==
    /\ Done /\ Standalone("after_time")
    /\ result.suggested_slots # << >>
    /\ \E j \in 1..Len(events) :
          /\ ~events[j].all_day
          /\ ParseIso(events[j].start) = parse_slot_intent(query).after
          /\ ParseIso(events[j].start) < ParseIso(events[j].end)
          /\ ParseIso(result.suggested_slots[1].start) = ParseIso(events[j].end)

\* C19: on the standalone slot path every suggestion lies within the working
\* hours of the intent's day, inside the clamped window: from max(after,
\* work_start) to work_end for an after-time intent, from max(intent.start,
\* work_start) to min(intent.end, work_end) for a day-window intent; when that
\* window is empty there is no suggestion.
C19_StandaloneSlotsWithinWorkHours ==
    (Done /\ (Standalone("after_time") \/ Standalone("day_window"))) =>
        LET intent == parse_slot_intent(query)
            after_time == intent.mode = "after_time"
            day == IF after_time THEN intent.after ELSE intent.start
            lo == Max(day, WorkStart(day))
            hi == IF after_time THEN WorkEnd(day) ELSE Min(intent.end, WorkEnd(day))
        IN  /\ \A i \in 1..Len(result.suggested_slots) :
                  LET s == ParseIso(result.suggested_slots[i].start)
                      e == ParseIso(result.suggested_slots[i].end)
                  IN  /\ lo <= s /\ s <= e /\ e <= hi
                      /\ WorkStart(day) <= s /\ e <= WorkEnd(day)
            /\ hi <= lo => result.suggested_slots = << >>

\* "book 30 min after 19 tomorrow" with working hours that end at 18:00: no
\* suggestion, although no event is in the way
C19_Witness ==
    /\ Done /\ Standalone("after_time")
    /\ events = << >>
    /\ WorkStart(parse_slot_intent(query).after) < WorkEnd(parse_slot_intent(query).after)
    /\ parse_slot_intent(query).after >= WorkEnd(parse_slot_intent(query).after)
    /\ result.suggested_slots = << >>

\* the conflict-detection loop of the call found a conflict
ConflictsFound == Conflicting(blocks, WStart, WEnd, WStart = WEnd) # << >>

\* the spans of the input events that parse (the civil day when all-day)
OwnSpans ==
    {<<OwnStart(events[j]), OwnEnd(events[j])>> : j \in {i \in 1..Len(events) : EventParses(events[i])}}

\* the quarter hours t of the window [ws, we] at which [t, t + n) lies inside
\* the window and shares time with no input event
FreeGapsInWindow(ws, we, n) ==
    LET spans == OwnSpans
    IN  {t \in {ws + 15 * k : k \in 0..((we - ws) \div 15)} :
            /\ t + n <= we
            /\ \A sp \in spans : ~(t < sp[2] /\ sp[1] < t + n)}

\* C18: when the conflict detection finds a conflict for a range window, the
\* result is "busy" with the conflicts found, and the slot finder has run
\* inside the window with the duration of the DayWindow intent of the query,
\* else 30 minutes: if the window holds a free gap that long, suggested_slots
\* is non-empty and its first slot lies inside the window and outside every
\* busy block.
C18_BusyRangeSuggestsInsideWindow ==
    Done =>
        LET w == parse_query_to_windows(query)
            intent == parse_slot_intent(query)
            n == IF intent.mode = "day_window" THEN intent.duration_min ELSE 30
            found == Conflicting(blocks, w[1][1], w[1][2], FALSE)
        IN  (w # << >> /\ w[1][1] < w[1][2] /\ found # << >>) =>
                /\ Busy
                /\ Len(result.conflicts) = Len(found)
                /\ FreeGapsInWindow(w[1][1], w[1][2], n) # {} =>
                      /\ result.suggested_slots # << >>
                      /\ LET s == ParseIso(result.suggested_slots[1].start)
                             e == ParseIso(result.suggested_slots[1].end)
                         IN  /\ e - s = n
                             /\ w[1][1] <= s /\ e <= w[1][2]
                             /\ FreeOfEvents(s, n)

\* "any slot tomorrow morning for 60 min" with an event 10:00-11:00: busy,
\* and the first suggestion is 09:00-10:00
C18_Witness ==
    /\ Done /\ RangeQuery /\ Busy
    /\ RequestedDuration = 60
    /\ \E j \in 1..Len(events) : Reported(j) /\ WStart < OwnStart(events[j])
    /\ result.suggested_slots # << >>
    /\ ParseIso(result.suggested_slots[1].start) = WStart

\* C20, as claimed: when a point window has a conflict, the result is "busy"
\* with exactly one entry in conflicts and no suggested slots, for every
\* event list.
C20_PointBusyHasSingleConflict ==
    (Done /\ PointQuery /\ ConflictsFound) =>
        /\ Busy
        /\ Len(result.conflicts) = 1
        /\ result.suggested_slots = << >>

\* the input events that cover the instant t: start <= t < end, or the civil
\* date of t when all-day
Covering(t) ==
    {j \in 1..Len(events) :
        /\ EventParses(events[j])
        /\ OwnStart(events[j]) <= t
        /\ t < OwnEnd(events[j])}

\* C20, amended: when a point window has a conflict, the result is "busy"
\* with one entry in conflicts for every event found in conflict, at least
\* one and at least as many as events cover the instant, each of these among
\* them, and no suggested slots.
C20_PointBusyReportsEveryConflict ==
    Done =>
        LET w == parse_query_to_windows(query)
            found == Conflicting(blocks, w[1][1], w[1][2], TRUE)
        IN  (w # << >> /\ w[1][1] = w[1][2] /\ found # << >>) =>
                /\ Busy
                /\ Len(result.conflicts) = Len(found)
                /\ Len(result.conflicts) >= 1
                /\ Len(result.conflicts) >= Cardinality(Covering(w[1][1]))
                /\ \A j \in Covering(w[1][1]) : Reported(j)
                /\ result.suggested_slots = << >>

\* two events cover the instant of a point query, and both are reported
C20_Witness ==
    /\ Done /\ PointQuery /\ Busy
    /\ Cardinality(Covering(WStart)) = 2
    /\ Len(result.conflicts) = 2
    /\ result.suggested_slots = << >>

\* C21: calls of decide_availability that run side by side, their steps
\* (parse, normalize, merge, conflict detection and slot finding) interleaved
\* in any order, each return what the same call returns when it runs alone
C21_ConcurrentCallsReturnAsAlone ==
    \A p \in DOMAIN tasks :
        (tasks[p].pc = "done") =>
            tasks[p].result = decide_availability(tasks[p].query, events, cfg)

\* one call has returned "busy" while the other, with another query, stands
\* between its normalisation and its merge
C21_Witness ==
    /\ DOMAIN tasks = TaskIds
    /\ tasks[1].pc = "done"
    /\ tasks[1].result.availability = "busy"
    /\ tasks[2].pc = "merge"
    /\ tasks[2].query # tasks[1].query
    /\ Len(events) = 2

\* the blocks of a list, without the reference to the object they are
Values(bs) == [i \in 1..Len(bs) |-> BusyBlock(bs[i].title, bs[i].start, bs[i].end, bs[i].all_day)]

\* C22: all-day expansion and the merge pass, applied to a list that is
\* already expanded and merged, return the same list: the same blocks in the
\* same order with the same start and end
C22_NormalizationIsIdempotent ==
    (pc = "done" /\ call.fn = "_merge_overlaps") =>
        Values(merge_overlaps(ExpandAllDay(ret))) = Values(ret)

\* the same, for lists in which no all-day block was merged with a block
\* that ends later
IdempotentUnlessAllDayExtended ==
    (pc = "done" /\ call.fn = "_merge_overlaps"
     /\ \A i \in 1..Len(ret) : ret[i].all_day => ret[i].end = Midnight(ret[i].start) + DayMin) =>
        Values(merge_overlaps(ExpandAllDay(ret))) = Values(ret)

\* every suggested slot is n minutes long and lies inside [ws, we]
SlotsInside(slots, ws, we, n) ==
    \A k \in 1..Len(slots) :
        LET s == ParseIso(slots[k].start)
            e == ParseIso(slots[k].end)
        IN  e - s = n /\ ws <= s /\ e <= we

\* C23, as claimed: when the conflict detection finds no conflict for a
\* range window and the query holds a DayWindow intent, the result is "free"
\* with no conflicts, the explanation "Window is free; suggested earliest
\* slots." and slots of the intent's duration inside the window; without a
\* DayWindow intent it is "free" with no suggestions and the explanation "No
\* conflicts in the requested window.".
C23_FreeRangeSuggestsForDayWindow ==
    Done =>
        LET w == parse_query_to_windows(query)
            intent == parse_slot_intent(query)
        IN  (w # << >> /\ w[1][1] < w[1][2]
             /\ Conflicting(blocks, w[1][1], w[1][2], FALSE) = << >>) =>
                /\ result.availability = "free"
                /\ result.conflicts = << >>
                /\ IF intent.mode = "day_window"
                   THEN /\ result.explanation.text = "Window is free; suggested earliest slots."
                        /\ result.suggested_slots # << >>
                        /\ SlotsInside(result.suggested_slots, w[1][1], w[1][2],
                                       intent.duration_min)
                   ELSE /\ result.explanation.text = "No conflicts in the requested window."
                        /\ result.suggested_slots = << >>

\* C23, amended: in the same case with a DayWindow intent, the slots and the
\* explanation "Window is free; suggested earliest slots." are returned when
\* the window holds a free gap of the intent's duration, the first slot being
\* the earliest such gap; when it holds none, and without a DayWindow intent,
\* the result is "free" with no suggestions and the explanation "No conflicts
\* in the requested window.".
C23_FreeRangeSuggestsWhenDurationFits ==
    Done =>
        LET w == parse_query_to_windows(query)
            intent == parse_slot_intent(query)
            gaps == FreeGapsInWindow(w[1][1], w[1][2], intent.duration_min)
        IN  (w # << >> /\ w[1][1] < w[1][2]
             /\ Conflicting(blocks, w[1][1], w[1][2], FALSE) = << >>) =>
                /\ result.availability = "free"
                /\ result.conflicts = << >>
                /\ IF intent.mode = "day_window" /\ gaps # {}
                   THEN /\ result.explanation.text = "Window is free; suggested earliest slots."
                        /\ result.suggested_slots # << >>
                        /\ SlotsInside(result.suggested_slots, w[1][1], w[1][2],
                                       intent.duration_min)
                        /\ ParseIso(result.suggested_slots[1].start) = SetMin(gaps)
                   ELSE /\ result.explanation.text = "No conflicts in the requested window."
                        /\ result.suggested_slots = << >>

\* "any slot tomorrow morning for 60 min" with an event 12:00-24:00: free,
\* and the slot suggested is 09:00-10:00
C23_Witness ==
    /\ Done /\ RangeQuery /\ ~ConflictsFound
    /\ parse_slot_intent(query).mode = "day_window"
    /\ parse_slot_intent(query).duration_min = 60
    /\ \E j \in 1..Len(events) : EventParses(events[j]) /\ ~events[j].all_day
    /\ result.availability = "free"
    /\ result.suggested_slots # << >>
    /\ ParseIso(result.suggested_slots[1].start) = WStart

\* "any slot tomorrow morning for 240 min": free, and nothing is suggested
C23_WitnessNoFit ==
    /\ Done /\ RangeQuery /\ ~ConflictsFound
    /\ parse_slot_intent(query).mode = "day_window"
    /\ parse_slot_intent(query).duration_min > WEnd - WStart
    /\ result.availability = "free"
    /\ result.suggested_slots = << >>

\* C24: classify_intent returns "calendar" for every string that contains
\* "any slot" in whatever case, whatever other keywords the string holds
C24_AnySlotIsCalendar ==
    (pc = "done" /\ call.fn = "classify_intent"
     /\ Contains(Lower(query), <<"a", "n", "y", " ", "s", "l", "o", "t">>)) =>
        ret = <<"calendar">>

\* a text with "any slot" in upper case after a notes keyword was classified
C24_Witness ==
    /\ pc = "done" /\ call.fn = "classify_intent"
    /\ Contains(query, <<"A", "N", "Y", " ", "S", "L", "O", "T">>)
    /\ Contains(Lower(query), <<"n", "o", "t", "e", "s">>)
    /\ ret = <<"calendar">>

\* C25: after blocks_for_slots was computed, every BusyBlock of the unmerged
\* list that the conflict detection reads still has the start and the end
\* it was normalized with
C25_MergeLeavesBlocksUnchanged ==
    Done => blocks = Normalize(events)

\* the same on event lists in which no timed block overlaps or touches a
\* later one of the sorted list
BlocksUnchangedWhenNothingMerges ==
    (Done /\ Len(blocks_for_slots) = Len(Normalize(events))) => blocks = Normalize(events)

\* C26: every BusyBlock that the normalisation of the events produces has
\* start <= end: an event whose end is before its start is skipped like one
\* that does not parse
C26_BlocksHaveStartBeforeEnd ==
    Done =>
        /\ \A i \in 1..Len(Normalize(events)) :
               Normalize(events)[i].start <= Normalize(events)[i].end
        /\ Len(blocks) =
               Cardinality({j \in 1..Len(events) : EventParses(events[j]) /\ WellFormed(events[j])})

\* the query is one of the point patterns: "today|tomorrow [at] HH[:MM]" or
\* "at HH[:MM]"
PointPatternQuery ==
    \/ IsWord(query, 1, DayWords) /\ (IsNum(query, 2) \/ (IsWord(query, 2, {"at"}) /\ IsNum(query, 3)))
    \/ IsWord(query, 1, {"at"}) /\ IsNum(query, 2)

\* the query is "today|tomorrow morning|afternoon|evening"
DaypartPatternQuery == IsWord(query, 1, DayWords) /\ IsWord(query, 2, DayParts)

\* the query is "next <weekday> HH[:MM]-HH[:MM]"
NextWeekdayPatternQuery ==
    IsWord(query, 1, {"next"}) /\ IsWord(query, 2, WeekDays) /\ IsRange(query, 3)

\* C27: every window returned by parse_query_to_windows has start <= end; a
\* point pattern gives start = end, a daypart pattern start < end, and "next
\* <weekday> HH-HH" with the end time before the start time gives end = start
\* on that day.
C27_WindowsHaveStartBeforeEnd ==
    (pc = "done" /\ call.fn = "parse_query_to_windows") =>
        /\ \A k \in 1..Len(ret) : ret[k][1] <= ret[k][2]
        /\ PointPatternQuery => (Len(ret) = 1 /\ ret[1][1] = ret[1][2])
        /\ DaypartPatternQuery => (Len(ret) = 1 /\ ret[1][1] < ret[1][2])
        /\ NextWeekdayPatternQuery =>
              /\ Len(ret) = 1
              /\ Midnight(ret[1][1]) = Midnight(ret[1][2])
              /\ Weekday(ret[1][1]) = DAY_MAP(query[2].w)
              /\ (60 * query[3].h2 + query[3].m2 < 60 * query[3].h + query[3].m) =>
                     ret[1][2] = ret[1][1]

\* "next <weekday> 15-14" was parsed: a point window at 15:00 of that day
C27_Witness ==
    /\ pc = "done" /\ call.fn = "parse_query_to_windows"
    /\ NextWeekdayPatternQuery
    /\ query[3] = R(15, 0, 14, 0)
    /\ Len(ret) = 1
    /\ ret[1][1] = ret[1][2]
    /\ ret[1][1] % DayMin = 15 * 60

\* the number of civil days from today to the day of dt
DaysFromToday(dt) == (Midnight(dt) - Midnight(now)) \div DayMin

\* C28: on every weekday and for every target weekday, the next-weekday rule
\* gives a day 1 to 7 days after its base day, never the base day, whose
\* weekday is the target ("next <weekday> HH-HH" counts it from today); in a
\* slot intent "this <weekday>" is that day counted from today and "next
\* <weekday>" is the day exactly 7 days after the "this" day.
C28_NextWeekdayIsOneToSevenDaysAhead ==
    /\ (pc = "done" /\ call.fn = "parse_query_to_windows" /\ IsWord(query, 1, {"next"})) =>
          /\ Len(ret) = 1
          /\ DaysFromToday(ret[1][1]) \in 1..7
          /\ (now_wd + DaysFromToday(ret[1][1])) % 7 = DAY_MAP(query[2].w)
    /\ (pc = "done" /\ call.fn = "parse_slot_intent" /\ IsWord(query, 3, {"this"})) =>
          /\ ret[1].mode = "day_window"
          /\ DaysFromToday(ret[1].start) \in 1..7
          /\ DaysFromToday(ret[1].end) = DaysFromToday(ret[1].start)
          /\ (now_wd + DaysFromToday(ret[1].start)) % 7 = DAY_MAP(query[4].w)
    /\ (pc = "done" /\ call.fn = "parse_slot_intent" /\ IsWord(query, 3, {"next"})) =>
          /\ ret[1].mode = "day_window"
          /\ DaysFromToday(ret[1].start) - 7 \in 1..7
          /\ DaysFromToday(ret[1].end) = DaysFromToday(ret[1].start)
          /\ (now_wd + DaysFromToday(ret[1].start) - 7) % 7 = DAY_MAP(query[4].w)

\* on a Friday, "any slot this fri" was parsed: the Friday a week from today
C28_Witness ==
    /\ pc = "done" /\ call.fn = "parse_slot_intent"
    /\ now_wd = 4
    /\ IsWord(query, 3, {"this"}) /\ IsWord(query, 4, {"fri"})
    /\ DaysFromToday(ret[1].start) = 7

\* on a Friday, "any slot next fri" was parsed: the Friday two weeks from today
C28_WitnessNext ==
    /\ pc = "done" /\ call.fn = "parse_slot_intent"
    /\ now_wd = 4
    /\ IsWord(query, 3, {"next"}) /\ IsWord(query, 4, {"fri"})
    /\ DaysFromToday(ret[1].start) = 14

\* C29: a call that returns, returns "unknown" exactly when
\* parse_query_to_windows found no window; conflicts is then empty, and the
\* explanation is "Suggested slots available." exactly when suggested_slots
\* is non-empty and "Could not resolve a specific time window." otherwise.  A
\* query that holds a slot intent and also matches a window pattern is never
\* answered "unknown".
C29_UnknownIffNoWindow ==
    Done =>
        LET w == parse_query_to_windows(query)
            intent == parse_slot_intent(query)
        IN  /\ result.availability = "unknown" <=> w = << >>
            /\ (w = << >>) =>
                  /\ result.conflicts = << >>
                  /\ result.explanation.text =
                        (IF result.suggested_slots # << >>
                         THEN "Suggested slots available."
                         ELSE "Could not resolve a specific time window.")
            /\ (intent.mode \in {"after_time", "day_window"} /\ w # << >>) =>
                  result.availability \in {"free", "busy"}

\* "book 30 min after tomorrow 10" holds an after-time intent and the point
\* window tomorrow 10:00: with an event over 10:00 the answer is "busy"
C29_Witness ==
    /\ Done
    /\ parse_slot_intent(query).mode = "after_time"
    /\ HasWindow
    /\ result.availability = "busy"

\* a query of no window with a slot intent was answered "unknown" with slots
C29_WitnessUnknown ==
    /\ Done /\ ~HasWindow
    /\ Len(events) > 0
    /\ result.availability = "unknown"
    /\ result.suggested_slots # << >>
    /\ result.explanation.text = "Suggested slots available."

\* C30: every slot that _suggest_slots_in_window returns lies inside the
\* window it was given, win_start <= slot.start and slot.end <= win_end,
\* whatever merged blocks reach over win_start or win_end; and it returns no
\* slot when win_end <= win_start.
C30_SlotsLieInsideGivenWindow ==
    (pc = "done" /\ call.fn = "_suggest_slots_in_window") =>
        /\ \A k \in 1..Len(ret) :
               /\ call.win_start <= ParseIso(ret[k].start)
               /\ ParseIso(ret[k].end) <= call.win_end
        /\ (call.win_end <= call.win_start) => ret = << >>

\* a slot was returned from a window whose start lies inside one block and
\* whose end lies inside another: it starts at the end of the first
C30_Witness ==
    /\ pc = "done" /\ call.fn = "_suggest_slots_in_window"
    /\ ret # << >>
    /\ \E i \in 1..Len(call.blocks) :
           /\ call.blocks[i].start < call.win_start /\ call.win_start < call.blocks[i].end
           /\ ParseIso(ret[1].start) = call.blocks[i].end
    /\ \E i \in 1..Len(call.blocks) :
           call.blocks[i].start < call.win_end /\ call.win_end < call.blocks[i].end

\* a window with win_end < win_start that a block spans gave no slot
C30_WitnessEmptyWindow ==
    /\ pc = "done" /\ call.fn = "_suggest_slots_in_window"
    /\ call.win_end < call.win_start
    /\ \E i \in 1..Len(call.blocks) :
           call.blocks[i].start < call.win_end /\ call.win_start < call.blocks[i].end
    /\ ret = << >>

====
